---- MODULE Spec2Model ----
(***************************************************************************)
(* PDF invoice intake pipeline: the AI extraction orchestrator             *)
(* (AIServiceManager), the Groq structured-data extractor, the extract /   *)
(* retry routes and the invoice record store with its CRUD routes.         *)
(*                                                                         *)
(* Strings whose content the code inspects character by character (vendor  *)
(* name, invoice number, date) are sequences of one-character strings.     *)
(* Error messages are sequences of words; String.includes is a contiguous  *)
(* sub-sequence test in both cases.                                        *)
(***************************************************************************)
EXTENDS Integers, Sequences, FiniteSets, TLC

VARIABLES
  variant,   \* deployment variant: "disk" (local uploads) or "blob" (Vercel Blob)
  req,       \* per request slot: the handler's position and its local variables
  records,   \* the Invoice collection (set of documents)
  files,     \* fileIds with a PDF under uploads/pdfs
  blobs,     \* fileIds with a PDF in the blob store
  nextId,    \* next document _id the store hands out
  usedIds,   \* fileIds already generated by uuidv4()
  started,   \* number of requests started so far
  retryCount \* geminiRetryCount / groqRetryCount of the shared AIServiceManager

vars == <<variant, req, records, files, blobs, nextId, usedIds, started, retryCount>>

-----------------------------------------------------------------------------
(* Bounds of the model *)

MaxRequests == 3

(* passes of the sanitizer over one parsed object *)
MaxPasses == 2

(* line items of an invoice in the edit forms *)
MaxItems == 2

(* largest maxRetries handed to extractTextFromPDFWithRetry *)
MaxTextRetries == 3

Reqs == {"r1", "r2"}

FileIds == {"f1", "f2"}

-----------------------------------------------------------------------------
(* String helpers (JavaScript String.prototype.trim / includes) *)

IsSpace(c) == c \in {" ", "\t", "\n"}

RECURSIVE TrimStart(_)
TrimStart(s) ==
  IF s = <<>> THEN <<>>
  ELSE IF IsSpace(Head(s)) THEN TrimStart(Tail(s)) ELSE s

RECURSIVE TrimEnd(_)
TrimEnd(s) ==
  IF s = <<>> THEN <<>>
  ELSE IF IsSpace(s[Len(s)]) THEN TrimEnd(SubSeq(s, 1, Len(s) - 1)) ELSE s

Trim(s) == TrimEnd(TrimStart(s))

Includes(s, sub) ==
  \E i \in 1..(Len(s) - Len(sub) + 1) : SubSeq(s, i, i + Len(sub) - 1) = sub

-----------------------------------------------------------------------------
(* JavaScript values: strings, undefined, numbers, arrays, objects *)

Str(s) == [t |-> "str", s |-> s]

Undef == [t |-> "undef"]

Num(n) == [t |-> "num", n |-> n]

Arr(items) == [t |-> "arr", items |-> items]

Null == [t |-> "null"]

Truthy(v) ==
  CASE v.t = "str" -> v.s # <<>>
    [] v.t = "num" -> v.n # 0
    [] v.t \in {"undef", "null"} -> FALSE
    [] OTHER -> TRUE

(* the clock: Date.now() and new Date().toISOString().split('T')[0] *)
NowDigits == <<"1", "7">>

Today == <<"2", "0", "2", "6", "-", "1", "1", "-", "0", "6">>

-----------------------------------------------------------------------------
(* AIServiceManager: constants, validation gate, mock candidate *)

maxRetries == 3

retryDelay == 2000

Field(o, f) == IF o.t = "obj" /\ f \in DOMAIN o THEN o[f] ELSE Undef

(* the gate without its checks of the invoice part *)
validateExtractedData_vendorOnly(data) ==
  /\ Truthy(data)
  /\ Truthy(Field(data, "vendor"))
  /\ Field(Field(data, "vendor"), "name").t = "str"
  /\ Len(Trim(Field(Field(data, "vendor"), "name").s)) > 0

validateExtractedData(data) ==
  /\ Truthy(data)
  /\ Truthy(Field(data, "vendor"))
  /\ Field(Field(data, "vendor"), "name").t = "str"
  /\ Len(Trim(Field(Field(data, "vendor"), "name").s)) > 0
  /\ Truthy(Field(data, "invoice"))
  /\ Field(Field(data, "invoice"), "number").t = "str"
  /\ Len(Trim(Field(Field(data, "invoice"), "number").s)) > 0
  /\ Field(Field(data, "invoice"), "date").t = "str"
  /\ Len(Trim(Field(Field(data, "invoice"), "date").s)) > 0
  /\ Field(Field(data, "invoice"), "lineItems").t = "arr"

(* the literal 'AI Extraction Failed' *)
AIFailedPrefix ==
  <<"A", "I", " ", "E", "x", "t", "r", "a", "c", "t", "i", "o", "n", " ",
    "F", "a", "i", "l", "e", "d">>

generateMockInvoiceData ==
  [t |-> "obj",
   vendor |-> [t |-> "obj",
               name |-> Str(AIFailedPrefix \o <<" ", "-", " ", "M", "o", "c", "k", " ",
                                                 "V", "e", "n", "d", "o", "r">>)],
   invoice |-> [t |-> "obj",
                number |-> Str(<<"M", "O", "C", "K", "-">> \o NowDigits),
                date |-> Str(Today),
                lineItems |-> Arr(<<[t |-> "obj",
                                     description |-> Str(AIFailedPrefix \o <<" ", "-", " ", "M", "o", "c", "k", " ", "L", "i", "n", "e", " ", "I", "t", "e", "m">>),
                                     unitPrice |-> Num(100), quantity |-> Num(1),
                                     total |-> Num(100)]>>)]]

(* "retryDelay":"<n>s" in a provider error message *)
RetryDelayToken(tok) ==
  CASE tok = "\"retryDelay\":\"0s\"" -> 0
    [] tok = "\"retryDelay\":\"5s\"" -> 5
    [] tok = "\"retryDelay\":\"30s\"" -> 30
    [] OTHER -> -1

(* null is rendered as -1 *)
extractRetryDelay(errorMessage) ==
  IF \E i \in 1..Len(errorMessage) : RetryDelayToken(errorMessage[i]) >= 0
  THEN LET i == CHOOSE j \in 1..Len(errorMessage) :
                  /\ RetryDelayToken(errorMessage[j]) >= 0
                  /\ \A k \in 1..(j - 1) : RetryDelayToken(errorMessage[k]) < 0
       IN RetryDelayToken(errorMessage[i]) * 1000
  ELSE -1

(* extractRetryDelay(error.message) || this.retryDelay *)
retryAfter(errorMessage) ==
  IF extractRetryDelay(errorMessage) > 0 THEN extractRetryDelay(errorMessage)
  ELSE retryDelay

-----------------------------------------------------------------------------
(* groqService: sanitizeExtractedData and its helpers *)

(* x?.trim() raises a TypeError when x is neither nullish nor a string *)
TrimThrows(v) == v.t \notin {"undef", "null", "str"}

(* x?.trim() || dflt *)
TrimOr(v, dflt) ==
  IF v.t = "str" /\ Trim(v.s) # <<>> THEN Trim(v.s) ELSE dflt

(* x?.trim() || undefined *)
TrimOrUndef(v) == IF v.t = "str" /\ Trim(v.s) # <<>> THEN Str(Trim(v.s)) ELSE Undef

Digits == {"0", "1", "2", "3", "4", "5", "6", "7", "8", "9"}

(* a string of the form YYYY-MM-DD *)
IsIsoDate(s) ==
  /\ Len(s) = 10
  /\ s[5] = "-"
  /\ s[8] = "-"
  /\ \A i \in {1, 2, 3, 4, 6, 7, 9, 10} : s[i] \in Digits

(* new Date(s).toISOString().split('T')[0]: a date-only ISO string is read as *)
(* UTC midnight and comes back unchanged; <<>> stands for an Invalid Date     *)
parseDate(s) ==
  CASE IsIsoDate(s) -> s
    [] s = <<"J", "a", "n", " ", "1", "5", ",", " ", "2", "0", "2", "4">> ->
         <<"2", "0", "2", "4", "-", "0", "1", "-", "1", "5">>
    [] OTHER -> <<>>

(* undefined is rendered as <<>> *)
validateAndFormatDate(dateStr) ==
  IF ~Truthy(dateStr) THEN <<>>
  ELSE IF dateStr.t = "str" THEN parseDate(dateStr.s)
  ELSE IF dateStr.t = "num" THEN <<"1", "9", "7", "0", "-", "0", "1", "-", "0", "1">>
  ELSE <<>>

(* validateAndFormatDate(x) || undefined *)
DateOrUndef(v) ==
  IF validateAndFormatDate(v) # <<>> THEN Str(validateAndFormatDate(v)) ELSE Undef

(* JavaScript numbers beyond the integers: Infinity and NaN *)
Infinity == [t |-> "inf"]

NaN == [t |-> "nan"]

(* parseFloat(x): numbers pass through their decimal rendering, strings are  *)
(* read as far as they are numeric, anything else is NaN                     *)
parseFloat(v) ==
  CASE v.t \in {"num", "inf"} -> v
    [] v.t = "str" /\ v.s = <<"1", "2">> -> Num(12)
    [] v.t = "str" /\ v.s = <<"-", "5">> -> Num(-5)
    [] v.t = "str" /\ v.s = <<"I", "n", "f", "i", "n", "i", "t", "y">> -> Infinity
    [] OTHER -> NaN

(* parseFloat(x) || dflt: NaN and 0 are falsy *)
ParseFloatOr(v, dflt) ==
  IF parseFloat(v).t = "nan" \/ parseFloat(v) = Num(0) THEN dflt ELSE parseFloat(v)

UnknownItem == <<"U", "n", "k", "n", "o", "w", "n", " ", "I", "t", "e", "m">>

(* items.filter(object).map(sanitize).filter(description !== 'Unknown Item') *)
RECURSIVE SelectItems(_)
SelectItems(items) ==
  IF items = <<>> THEN <<>>
  ELSE LET item == Head(items)
           rest == SelectItems(Tail(items))
       IN IF item.t # "obj" THEN rest
          ELSE LET description == TrimOr(Field(item, "description"), UnknownItem)
               IN IF description = UnknownItem
                  THEN rest
                  ELSE <<[t |-> "obj",
                          description |-> Str(description),
                          unitPrice |-> ParseFloatOr(Field(item, "unitPrice"), Num(0)),
                          quantity |-> ParseFloatOr(Field(item, "quantity"), Num(1)),
                          total |-> ParseFloatOr(Field(item, "total"), Num(0))]>> \o rest

(* the placeholder item *)
PlaceholderItem ==
  [t |-> "obj",
   description |-> Str(<<"U", "n", "a", "b", "l", "e", " ", "t", "o", " ",
                         "e", "x", "t", "r", "a", "c", "t", " ", "l", "i",
                         "n", "e", " ", "i", "t", "e", "m", "s">>),
   unitPrice |-> Num(0), quantity |-> Num(1), total |-> Num(0)]

sanitizeLineItems(items) ==
  IF items.t # "arr" THEN <<>>
  ELSE LET sanitizedItems == SelectItems(items.items)
       IN IF Len(sanitizedItems) = 0
          THEN <<PlaceholderItem>>
          ELSE sanitizedItems

(* the TypeErrors sanitizeExtractedData can raise *)
sanitizeThrows(data) ==
  \/ data.t \in {"null", "undef"}
  \/ \E f \in {"name", "address", "taxId"} : TrimThrows(Field(Field(data, "vendor"), f))
  \/ \E f \in {"number", "currency", "poNumber"} : TrimThrows(Field(Field(data, "invoice"), f))
  \/ \E item \in {Field(Field(data, "invoice"), "lineItems").items[i] :
                    i \in 1..(IF Field(Field(data, "invoice"), "lineItems").t = "arr"
                              THEN Len(Field(Field(data, "invoice"), "lineItems").items)
                              ELSE 0)} :
       item.t = "obj" /\ TrimThrows(Field(item, "description"))

sanitizeExtractedData(data) ==
  LET vendor == Field(data, "vendor")
      invoice == Field(data, "invoice")
  IN [t |-> "obj",
      vendor |-> [t |-> "obj",
                  name |-> Str(TrimOr(Field(vendor, "name"),
                                      <<"U", "n", "k", "n", "o", "w", "n", " ",
                                        "V", "e", "n", "d", "o", "r">>)),
                  address |-> TrimOrUndef(Field(vendor, "address")),
                  taxId |-> TrimOrUndef(Field(vendor, "taxId"))],
      invoice |-> [t |-> "obj",
                   number |-> Str(TrimOr(Field(invoice, "number"),
                                         <<"I", "N", "V", "-">> \o NowDigits)),
                   date |-> Str(IF validateAndFormatDate(Field(invoice, "date")) # <<>>
                                THEN validateAndFormatDate(Field(invoice, "date"))
                                ELSE Today),
                   currency |-> Str(TrimOr(Field(invoice, "currency"), <<"U", "S", "D">>)),
                   subtotal |-> ParseFloatOr(Field(invoice, "subtotal"), Undef),
                   taxPercent |-> ParseFloatOr(Field(invoice, "taxPercent"), Undef),
                   total |-> ParseFloatOr(Field(invoice, "total"), Undef),
                   poNumber |-> TrimOrUndef(Field(invoice, "poNumber")),
                   poDate |-> DateOrUndef(Field(invoice, "poDate")),
                   lineItems |-> Arr(sanitizeLineItems(
                                   IF Truthy(Field(invoice, "lineItems"))
                                   THEN Field(invoice, "lineItems")
                                   ELSE Arr(<<>>)))]]

-----------------------------------------------------------------------------
(* Provider environment *)

GoodInvoice ==
  [t |-> "obj",
   number |-> Str(<<"I", "N", "V", "-", "7">>),
   date |-> Str(<<"2", "0", "2", "4", "-", "0", "1", "-", "1", "5">>),
   lineItems |-> Arr(<<[t |-> "obj", description |-> Str(<<"H", "o", "s", "e">>),
                        unitPrice |-> Num(5), quantity |-> Num(2), total |-> Num(10)]>>)]

Candidate(name) == [t |-> "obj", vendor |-> [t |-> "obj", name |-> name], invoice |-> GoodInvoice]

(* objects a provider can answer with; the rich set adds the malformed ones *)
ProviderObjects(rich) ==
  {Candidate(Str(<<"A", "c", "m", "e">>)),
   Candidate(Str(<<"M", "o", "c", "k", " ", "C", "o">>))}
  \cup (IF rich
        THEN {Null,
              Num(7),
              [t |-> "obj"],
              Candidate(Str(<<" ">>)),
              Candidate(Num(7)),
              Candidate(Str(<<" ", "A", "c", "m", "e", " ">>)),
              [t |-> "obj", vendor |-> [t |-> "obj", name |-> Str(<<"A", "c", "m", "e">>)],
               invoice |-> [t |-> "obj", number |-> Undef, date |-> Str(<<"n", "/", "a">>),
                            lineItems |-> Str(<<"x">>)]],
              [t |-> "obj", vendor |-> [t |-> "obj", name |-> Str(<<"A", "c", "m", "e">>)],
               invoice |-> Undef]}
        ELSE {})

(* errors a provider SDK can raise: status (0 when absent) and message *)
ProviderErrors(rich) ==
  {[status |-> 0, message |-> <<"fetch", "failed">>],
   [status |-> 429, message |-> <<"Rate", "limit", "reached">>]}
  \cup (IF rich
        THEN {[status |-> 429, message |-> <<"quota", "\"retryDelay\":\"5s\"">>],
              [status |-> 503, message |-> <<"upstream", "rate", "limit", "hit">>],
              [status |-> 400, message |-> <<"the", "model", "is", "decommissioned">>],
              [status |-> 401, message |-> <<"Invalid", "API", "key">>]}
        ELSE {})

(* extractDataWithGemini(text): a candidate or a thrown error *)
GeminiOutcomes(rich) ==
  {[k |-> "data", data |-> d] : d \in ProviderObjects(rich)}
  \cup {[k |-> "error", error |-> e] : e \in ProviderErrors(rich)}

(* groq.chat.completions.create(...): response content or a thrown error *)
CompletionOutcomes(rich) ==
  {[k |-> "content", json |-> TRUE, value |-> d] : d \in ProviderObjects(rich)}
  \cup {[k |-> "error", error |-> e] : e \in ProviderErrors(rich)}
  \cup (IF rich
        THEN {[k |-> "content", json |-> FALSE], [k |-> "nocontent"], [k |-> "nokey"]}
        ELSE {})

-----------------------------------------------------------------------------
(* groqService.extractDataWithGroq *)

(* the try block of one invocation, given what the completion call did *)
groqTry(o) ==
  CASE o.k = "error" -> [ok |-> FALSE, error |-> o.error, cls |-> "apierror"]
    [] o.k = "nocontent" ->
         [ok |-> FALSE, cls |-> "empty",
          error |-> [status |-> 0, message |-> <<"Empty", "response", "from", "Groq", "API">>]]
    [] o.k = "content" /\ ~o.json ->
         [ok |-> FALSE, cls |-> "badjson",
          error |-> [status |-> 0,
                     message |-> <<"Invalid", "JSON", "response", "from", "Groq:",
                                   "SyntaxError">>]]
    [] o.k = "content" /\ o.json /\ sanitizeThrows(o.value) ->
         [ok |-> FALSE, cls |-> "typeerror",
          error |-> [status |-> 0, message |-> <<"TypeError">>]]
    [] OTHER -> [ok |-> TRUE, cls |-> "ok", data |-> sanitizeExtractedData(o.value)]

(* the re-throw with more context at the end of the catch block *)
groqRethrow(error) ==
  IF error.status = 429
  THEN [status |-> 0,
        message |-> <<"Groq", "API", "rate", "limit", "exceeded:">> \o error.message]
  ELSE IF error.status = 400 /\ Includes(error.message, <<"model">>)
  THEN [status |-> 0,
        message |-> <<"Groq", "model", "error:">> \o error.message
                      \o <<"Please", "check", "if", "the", "model", "is", "still",
                           "supported.">>]
  ELSE IF Includes(error.message, <<"API", "key">>)
  THEN [status |-> 0, message |-> <<"Invalid", "or", "missing", "Groq", "API", "key">>]
  ELSE [status |-> 0,
        message |-> <<"Groq", "AI", "extraction", "failed:">> \o error.message]

-----------------------------------------------------------------------------
(* Request slots *)

NoData == [t |-> "none"]

NoError == [status |-> 0, message |-> <<>>]

NoResp == [status |-> 0]

(* what the last settled tryX attempt saw: provider, attempt number, outcome,  *)
(* the provider's error (raw), the error tryX caught (err), whether another    *)
(* attempt follows and after which delay, the outcomes of its completion calls *)
NoEntry ==
  [p |-> "", attempt |-> 0, out |-> "", raw |-> NoError, err |-> NoError,
   retry |-> FALSE, wait |-> 0, comps |-> <<>>]

IdleReq ==
  [kind |-> "idle", pc |-> "idle", fileId |-> "", model |-> "", text |-> <<>>,
   id |-> 0, attempt |-> 0, useFallback |-> FALSE, comps |-> <<>>,
   tried |-> <<>>, failed |-> {}, producer |-> "", last |-> NoEntry,
   data |-> NoData, doc |-> 0, body |-> [t |-> "none"], textFailed |-> FALSE,
   blank |-> FALSE, cleanup |-> "none", resp |-> NoResp, limit |-> 0, waits |-> <<>>]

Other(p) == IF p = "gemini" THEN "groq" ELSE "gemini"

TryPc(p) == IF p = "gemini" THEN "tryGemini" ELSE "tryGroq"

(* vendor.name.includes('Mock') || vendor.name.includes('AI Extraction Failed') *)
isMockData(extractedData) ==
  \/ Includes(extractedData.vendor.name.s, <<"M", "o", "c", "k">>)
  \/ Includes(extractedData.vendor.name.s, AIFailedPrefix)

(* let actualModelUsed = model; if (isMockData) actualModelUsed = 'mock' *)
actualModelUsed(q) == IF isMockData(q.data) THEN "mock" ELSE q.model

(* extractData returns to its caller: a direct call, POST /extract up to    *)
(* Invoice.findOne, POST /extract/retry up to invoice.save                   *)
Returned(q, data) ==
  [q EXCEPT !.data = data,
            !.attempt = 0,
            !.useFallback = FALSE,
            !.comps = <<>>,
            !.pc = CASE q.kind = "extract" -> "findOne"
                     [] q.kind = "retry" -> "save"
                     [] OTHER -> "returned"]

Entry(q, p, out, raw, err, retry, wait) ==
  [p |-> p, attempt |-> q.attempt, out |-> out, raw |-> raw, err |-> err,
   retry |-> retry, wait |-> wait, comps |-> q.comps]

(* the providers attempted so far, in order *)
Tried(q, p) == IF p \in {q.tried[i] : i \in 1..Len(q.tried)} THEN q.tried ELSE Append(q.tried, p)

(* tryX returned { success: true, data } *)
ProviderSucceeded(q, p, data) ==
  Returned([q EXCEPT !.last = Entry(q, p, "ok", NoError, NoError, FALSE, 0),
                     !.tried = Tried(q, p),
                     !.producer = p], data)

(* the mock candidate as soon as the preferred provider has failed *)
ProviderFailed_noFallback(q, p, out, raw, err) ==
  Returned([q EXCEPT !.last = Entry(q, p, out, raw, err, FALSE, 0),
                     !.tried = Tried(q, p),
                     !.failed = q.failed \cup {p},
                     !.producer = "mock"], generateMockInvoiceData)

(* tryX returned { success: false }: the other provider, or the mock candidate *)
ProviderFailed(q, p, out, raw, err) ==
  LET q1 == [q EXCEPT !.last = Entry(q, p, out, raw, err, FALSE, 0),
                      !.tried = Tried(q, p),
                      !.failed = q.failed \cup {p}]
  IN IF p = q.model
     THEN [q1 EXCEPT !.pc = TryPc(Other(p)), !.attempt = 1,
                     !.useFallback = FALSE, !.comps = <<>>]
     ELSE Returned([q1 EXCEPT !.producer = "mock"], generateMockInvoiceData)

(* tryX waits before the next attempt *)
ProviderRetries(q, p, raw, err, wait) ==
  [q EXCEPT !.last = Entry(q, p, "error", raw, err, TRUE, wait),
            !.tried = Tried(q, p),
            !.pc = IF p = "gemini" THEN "geminiDelay" ELSE "groqDelay",
            !.comps = <<>>]

(* tryGemini retrying a rate-limited call whatever the attempt number *)
tryGemini_retriesAlways(q, o) ==
  IF o.k = "data"
  THEN IF validateExtractedData(o.data)
       THEN ProviderSucceeded(q, "gemini", o.data)
       ELSE ProviderFailed(q, "gemini", "rejected", NoError, NoError)
  ELSE IF o.error.status = 429
       THEN ProviderRetries(q, "gemini", o.error, o.error, retryAfter(o.error.message))
       ELSE ProviderFailed(q, "gemini", "error", o.error, o.error)

tryGemini(q, o) ==
  IF o.k = "data"
  THEN IF validateExtractedData(o.data)
       THEN ProviderSucceeded(q, "gemini", o.data)
       ELSE ProviderFailed(q, "gemini", "rejected", NoError, NoError)
  ELSE IF o.error.status = 429
       THEN IF q.attempt < maxRetries
            THEN ProviderRetries(q, "gemini", o.error, o.error, retryAfter(o.error.message))
            ELSE ProviderFailed(q, "gemini", "error", o.error, o.error)
       ELSE ProviderFailed(q, "gemini", "error", o.error, o.error)

(* the catch block with attempt <= maxRetries: one attempt too many *)
tryGroqCatch_offByOne(q, raw, error) ==
  IF error.status = 429 \/ Includes(error.message, <<"rate", "limit">>)
  THEN IF q.attempt <= maxRetries
       THEN ProviderRetries(q, "groq", raw, error, retryDelay)
       ELSE ProviderFailed(q, "groq", "error", raw, error)
  ELSE ProviderFailed(q, "groq", "error", raw, error)

(* the catch block of tryGroq, for an error thrown by extractDataWithGroq *)
tryGroqCatch(q, raw, error) ==
  IF error.status = 429 \/ Includes(error.message, <<"rate", "limit">>)
  THEN IF q.attempt < maxRetries
       THEN ProviderRetries(q, "groq", raw, error, retryDelay)
       ELSE ProviderFailed(q, "groq", "error", raw, error)
  ELSE ProviderFailed(q, "groq", "error", raw, error)

(* GROQ_API_KEY is not set: thrown before the try block, no completion call *)
NoKeyError ==
  [status |-> 0,
   message |-> <<"GROQ_API_KEY", "environment", "variable", "is", "not", "set">>]

(* extractDataWithGroq without the fallback model *)
tryGroq_noFallbackModel(q, o) ==
  LET res == groqTry(o)
      q1 == [q EXCEPT !.comps = Append(q.comps, res.cls)]
  IN IF o.k = "nokey" THEN tryGroqCatch(q, NoKeyError, NoKeyError)
     ELSE IF res.ok
     THEN IF validateExtractedData(res.data)
          THEN ProviderSucceeded(q1, "groq", res.data)
          ELSE ProviderFailed(q1, "groq", "rejected", NoError, NoError)
     ELSE tryGroqCatch(q1, res.error, groqRethrow(res.error))

(* one invocation of extractDataWithGroq inside tryGroq: the completion call *)
(* and what follows it                                                       *)
tryGroq(q, o) ==
  LET res == groqTry(o)
      q1 == [q EXCEPT !.comps = Append(q.comps, res.cls)]
  IN IF o.k = "nokey" THEN tryGroqCatch(q, NoKeyError, NoKeyError)
     ELSE IF res.ok
     THEN IF validateExtractedData(res.data)
          THEN ProviderSucceeded(q1, "groq", res.data)
          ELSE ProviderFailed(q1, "groq", "rejected", NoError, NoError)
     ELSE IF ~q.useFallback
          THEN [q1 EXCEPT !.useFallback = TRUE]
          ELSE tryGroqCatch(q1, res.error, groqRethrow(res.error))

-----------------------------------------------------------------------------
(* The Invoice model and the collection *)

Statuses == {"pending", "processing", "completed", "failed"}

(* Mongoose validation of a document: the disk variant runs models/Invoices.ts, *)
(* the blob variant the schema with fileUrl / blobName and the 'mock' model     *)
schemaValid(v, d) ==
  /\ d.fileId # ""
  /\ d.fileName
  /\ d.date # <<>>
  /\ d.status \in Statuses
  /\ IF v = "disk"
     THEN d.number # <<>> /\ d.model \in {"none", "gemini", "groq"}
     ELSE d.fileUrl /\ d.model \in {"none", "gemini", "groq", "mock"}

(* Invoice.findOne({ fileId }): the _id of a matching document, 0 for null *)
findOne(fileId) ==
  IF \E rec \in records : rec.fileId = fileId
  THEN (CHOOSE rec \in records : rec.fileId = fileId).id
  ELSE 0

(* Invoice.findById(id) *)
findById(id) == IF \E rec \in records : rec.id = id THEN id ELSE 0

(* a collection without the unique index *)
duplicateKey_noIndex(fileId) == FALSE

(* save() of a new document against the unique index on fileId *)
duplicateKey(fileId) == \E rec \in records : rec.fileId = fileId

Stored(id, fileId, status, model, name) ==
  [id |-> id, fileId |-> fileId, status |-> status, model |-> model, name |-> name]

Updated(id, status, model, name) ==
  {IF rec.id = id THEN [rec EXCEPT !.status = status, !.model = model, !.name = name]
   ELSE rec : rec \in records}

ErrResp(status) ==
  [status |-> status, success |-> FALSE, extractionModel |-> "", warning |-> FALSE,
   state |-> ""]

OkResp(status, model, warning, state) ==
  [status |-> status, success |-> TRUE, extractionModel |-> model, warning |-> warning,
   state |-> state]

Fail(q, status) == [q EXCEPT !.pc = "done", !.resp = ErrResp(status)]

Begin(r) ==
  /\ req[r].pc = "idle"
  /\ started < MaxRequests
  /\ started' = started + 1

-----------------------------------------------------------------------------
(* AIServiceManager.extractData, step by step *)

(* extractDataSafely(text, model) called directly *)
CallExtractData(r) ==
  /\ req[r].pc = "idle"
  /\ \E text \in {<<>>, <<"t", "x", "t">>}, model \in {"gemini", "groq"} :
       req' = [req EXCEPT ![r] = [IdleReq EXCEPT !.kind = "call", !.text = text,
                                                 !.model = model, !.pc = TryPc(model),
                                                 !.attempt = 1]]
  /\ UNCHANGED <<variant, retryCount, records, files, blobs, nextId, usedIds, started>>

GeminiCall(r, rich) ==
  /\ req[r].pc = "tryGemini"
  /\ \E o \in GeminiOutcomes(rich) :
       /\ req' = [req EXCEPT ![r] = tryGemini(req[r], o)]
       (* this.geminiRetryCount = 0 on success; nothing else touches it *)
       /\ retryCount' = IF tryGemini(req[r], o).producer = "gemini"
                        THEN [retryCount EXCEPT !.gemini = 0] ELSE retryCount
  /\ UNCHANGED <<variant, records, files, blobs, nextId, usedIds, started>>

GroqCall(r, rich) ==
  /\ req[r].pc = "tryGroq"
  /\ \E o \in CompletionOutcomes(rich) :
       (* the environment of the process is fixed: a key that is missing is *)
       (* missing at the first invocation                                   *)
       /\ o.k = "nokey" => req[r].attempt = 1 /\ ~req[r].useFallback
       /\ req' = [req EXCEPT ![r] = tryGroq(req[r], o)]
       (* this.groqRetryCount = 0 on success; nothing else touches it *)
       /\ retryCount' = IF tryGroq(req[r], o).producer = "groq"
                        THEN [retryCount EXCEPT !.groq = 0] ELSE retryCount
  /\ UNCHANGED <<variant, records, files, blobs, nextId, usedIds, started>>

(* the attempt number kept in the shared counter of the manager instead of  *)
(* the attempt parameter                                                     *)
DelayElapsed_sharedCounter(r) ==
  /\ req[r].pc \in {"geminiDelay", "groqDelay"}
  /\ LET p == IF req[r].pc = "geminiDelay" THEN "gemini" ELSE "groq"
     IN /\ retryCount' = [retryCount EXCEPT ![p] = retryCount[p] + 1]
        /\ req' = [req EXCEPT ![r].pc = TryPc(p),
                              ![r].attempt = retryCount[p] + 2,
                              ![r].useFallback = FALSE]
  /\ UNCHANGED <<variant, records, files, blobs, nextId, usedIds, started>>

(* await this.delay(...) is over: return this.tryX(text, attempt + 1) *)
DelayElapsed(r) ==
  /\ req[r].pc \in {"geminiDelay", "groqDelay"}
  /\ req' = [req EXCEPT ![r].pc = IF req[r].pc = "geminiDelay" THEN "tryGemini" ELSE "tryGroq",
                        ![r].attempt = req[r].attempt + 1,
                        ![r].useFallback = FALSE]
  /\ UNCHANGED <<variant, retryCount, records, files, blobs, nextId, usedIds, started>>

Reset(r) ==
  /\ req[r].pc \in {"done", "returned", "threw"}
  /\ req' = [req EXCEPT ![r] = IdleReq]
  /\ UNCHANGED <<variant, retryCount, records, files, blobs, nextId, usedIds, started>>

-----------------------------------------------------------------------------
(* extractRoutes: POST /extract and POST /extract/retry/:fileId *)

(* validation, fs.existsSync(filePath), then extractTextFromPDF reads the file *)
ExtractStart(r) ==
  /\ Begin(r)
  /\ \E fileId \in FileIds \cup {""}, model \in {"gemini", "groq", "gpt"} :
       LET q == [IdleReq EXCEPT !.kind = "extract", !.fileId = fileId, !.model = model]
       IN req' = [req EXCEPT ![r] =
                    IF fileId = "" THEN Fail(q, 400)
                    ELSE IF model \notin {"gemini", "groq"} THEN Fail(q, 400)
                    ELSE IF fileId \notin files THEN Fail(q, 404)
                    ELSE [q EXCEPT !.pc = "extractText"]]
  /\ UNCHANGED <<variant, retryCount, records, files, blobs, nextId, usedIds>>

(* model check, then Invoice.findOne({ fileId }) *)
RetryStart(r) ==
  /\ Begin(r)
  /\ \E fileId \in FileIds, model \in {"gemini", "groq", "gpt"} :
       LET q == [IdleReq EXCEPT !.kind = "retry", !.fileId = fileId, !.model = model]
       IN req' = [req EXCEPT ![r] =
                    IF model \notin {"gemini", "groq"} THEN Fail(q, 400)
                    ELSE IF findOne(fileId) = 0 THEN Fail(q, 404)
                    ELSE [q EXCEPT !.pc = "retryFound", !.doc = findOne(fileId)]]
  /\ UNCHANGED <<variant, retryCount, records, files, blobs, nextId, usedIds>>

(* a retry that removes the record of a file it does not find *)
RetryCheckFile_dropsRecord(r) ==
  /\ req[r].pc = "retryFound"
  /\ req' = [req EXCEPT ![r] = IF req[r].fileId \notin files THEN Fail(req[r], 404)
                               ELSE [req[r] EXCEPT !.pc = "extractText"]]
  /\ records' = IF req[r].fileId \notin files
                THEN {rec \in records : rec.fileId # req[r].fileId}
                ELSE records
  /\ UNCHANGED <<variant, retryCount, files, blobs, nextId, usedIds, started>>

(* fs.existsSync(filePath), then extractTextFromPDF reads the file *)
RetryCheckFile(r) ==
  /\ req[r].pc = "retryFound"
  /\ req' = [req EXCEPT ![r] = IF req[r].fileId \notin files THEN Fail(req[r], 404)
                               ELSE [req[r] EXCEPT !.pc = "extractText"]]
  /\ UNCHANGED <<variant, retryCount, records, files, blobs, nextId, usedIds, started>>

(* pdfService.extractTextFromPDF(filePath) once pdf(dataBuffer) has settled: *)
(* it throws on a parser error and on blank text                             *)
extractTextFromPDF(parsed, text) ==
  IF parsed = "throws" \/ Len(Trim(text)) = 0 THEN [ok |-> FALSE, text |-> <<>>]
  ELSE [ok |-> TRUE, text |-> text]

(* await extractTextFromPDF(filePath), the check of the text, and the call of *)
(* extractDataSafely                                                          *)
ExtractText(r) ==
  /\ req[r].pc = "extractText"
  /\ \E parsed \in {"throws", "text"}, text \in {<<>>, <<" ">>, <<"t", "x", "t">>} :
       LET res == extractTextFromPDF(parsed, text)
       IN req' = [req EXCEPT ![r] =
                    IF ~res.ok
                    THEN Fail([req[r] EXCEPT !.textFailed = TRUE,
                                             !.blank = (parsed = "text")], 500)
                    ELSE IF Len(Trim(res.text)) = 0
                         THEN Fail([req[r] EXCEPT !.textFailed = TRUE, !.blank = TRUE], 400)
                    ELSE [req[r] EXCEPT !.text = res.text, !.pc = TryPc(req[r].model),
                                        !.attempt = 1]]
  /\ UNCHANGED <<variant, retryCount, records, files, blobs, nextId, usedIds, started>>

(* POST /extract: Invoice.findOne({ fileId }) *)
ExtractFindOne(r) ==
  /\ req[r].pc = "findOne"
  /\ req' = [req EXCEPT ![r].doc = findOne(req[r].fileId), ![r].pc = "save"]
  /\ UNCHANGED <<variant, retryCount, records, files, blobs, nextId, usedIds, started>>

(* invoice.save() with the extracted data, then the response *)
ExtractSave(r) ==
  LET q == req[r]
      model == actualModelUsed(q)
      d == [fileId |-> q.fileId, fileName |-> TRUE,
            fileUrl |-> (variant = "blob" /\ q.doc # 0),
            number |-> q.data.invoice.number.s, date |-> q.data.invoice.date.s,
            status |-> "completed", model |-> model]
      ok == OkResp(200, model, isMockData(q.data), "completed")
  IN /\ q.pc = "save"
     /\ q.kind \in {"extract", "retry"}
     /\ IF ~schemaValid(variant, d)
        THEN /\ req' = [req EXCEPT ![r] = Fail(q, 500)]
             /\ UNCHANGED <<records, nextId>>
        ELSE IF q.doc = 0
        THEN IF duplicateKey(q.fileId)
             THEN /\ req' = [req EXCEPT ![r] = Fail(q, 500)]
                  /\ UNCHANGED <<records, nextId>>
             ELSE /\ records' = records \cup
                       {Stored(nextId, q.fileId, "completed", model, q.data.vendor.name.s)}
                  /\ nextId' = nextId + 1
                  /\ req' = [req EXCEPT ![r].pc = "done", ![r].resp = ok,
                                        ![r].doc = nextId]
        ELSE IF findById(q.doc) = 0
        THEN /\ req' = [req EXCEPT ![r] = Fail(q, 500)]
             /\ UNCHANGED <<records, nextId>>
        ELSE /\ records' = Updated(q.doc, "completed", model, q.data.vendor.name.s)
             /\ req' = [req EXCEPT ![r].pc = "done", ![r].resp = ok]
             /\ UNCHANGED nextId
     /\ UNCHANGED <<variant, retryCount, files, blobs, usedIds, started>>

-----------------------------------------------------------------------------
(* uploadRoutes *)

(* disk variant: multer stores the PDF under a fresh uuid; no record is made *)
UploadDisk(r) ==
  /\ variant = "disk"
  /\ Begin(r)
  /\ \E fileId \in FileIds \ usedIds :
       /\ files' = files \cup {fileId}
       /\ usedIds' = usedIds \cup {fileId}
       /\ req' = [req EXCEPT ![r] = [IdleReq EXCEPT !.kind = "upload", !.fileId = fileId,
                                                    !.pc = "done",
                                                    !.resp = OkResp(200, "", FALSE, "")]]
  /\ UNCHANGED <<variant, retryCount, records, blobs, nextId>>

(* blob variant: uuidv4(), then await put(blobName, buffer) *)
UploadPut(r) ==
  /\ variant = "blob"
  /\ Begin(r)
  /\ \E fileId \in FileIds \ usedIds, putOk \in BOOLEAN :
       LET q == [IdleReq EXCEPT !.kind = "upload", !.fileId = fileId]
       IN /\ usedIds' = usedIds \cup {fileId}
          /\ blobs' = IF putOk THEN blobs \cup {fileId} ELSE blobs
          /\ req' = [req EXCEPT ![r] = IF putOk THEN [q EXCEPT !.pc = "uploadSave"]
                                       ELSE Fail(q, 500)]
  /\ UNCHANGED <<variant, retryCount, records, files, nextId>>

(* the catch block without del(blob.url) *)
UploadSave_noCleanup(r) ==
  /\ req[r].pc = "uploadSave"
  /\ \E dbOk \in BOOLEAN :
       LET q == req[r]
           d == [fileId |-> q.fileId, fileName |-> TRUE, fileUrl |-> TRUE, number |-> <<>>,
                 date |-> Today, status |-> "pending", model |-> "none"]
       IN IF dbOk /\ schemaValid(variant, d) /\ ~duplicateKey(q.fileId)
          THEN /\ records' = records \cup {Stored(nextId, q.fileId, "pending", "none", <<>>)}
               /\ nextId' = nextId + 1
               /\ req' = [req EXCEPT ![r].pc = "done", ![r].doc = nextId,
                                     ![r].resp = OkResp(200, "", FALSE, "")]
          ELSE /\ req' = [req EXCEPT ![r] = Fail(q, 500)]
               /\ UNCHANGED <<records, nextId>>
  /\ UNCHANGED <<variant, retryCount, files, blobs, usedIds, started>>

(* await invoice.save(); on a database error del(blob.url) is tried *)
UploadSave(r) ==
  /\ req[r].pc = "uploadSave"
  /\ \E dbOk \in BOOLEAN, delOk \in BOOLEAN :
       LET q == req[r]
           d == [fileId |-> q.fileId, fileName |-> TRUE, fileUrl |-> TRUE, number |-> <<>>,
                 date |-> Today, status |-> "pending", model |-> "none"]
       IN IF dbOk /\ schemaValid(variant, d) /\ ~duplicateKey(q.fileId)
          THEN /\ records' = records \cup {Stored(nextId, q.fileId, "pending", "none", <<>>)}
               /\ nextId' = nextId + 1
               /\ req' = [req EXCEPT ![r].pc = "done", ![r].doc = nextId,
                                     ![r].resp = OkResp(200, "", FALSE, "")]
               /\ UNCHANGED blobs
          ELSE /\ blobs' = IF delOk THEN blobs \ {q.fileId} ELSE blobs
               /\ req' = [req EXCEPT ![r] =
                            Fail([q EXCEPT !.cleanup = IF delOk THEN "deleted" ELSE "failed"],
                                 500)]
               /\ UNCHANGED <<records, nextId>>
  /\ UNCHANGED <<variant, retryCount, files, usedIds, started>>

-----------------------------------------------------------------------------
(* invoiceRoutes: POST / *)

(* validation of the body, then Invoice.findOne({ fileId }) *)
CreateCheck(r) ==
  /\ Begin(r)
  /\ \E fileId \in FileIds, complete \in BOOLEAN, model \in {"", "gemini"} :
       LET q == [IdleReq EXCEPT !.kind = "create", !.fileId = fileId, !.model = model]
       IN req' = [req EXCEPT ![r] =
                    IF ~complete THEN Fail(q, 400)
                    ELSE IF findOne(fileId) # 0
                         THEN Fail(q, IF variant = "disk" THEN 409 ELSE 400)
                         ELSE [q EXCEPT !.pc = "createSave"]]
  /\ UNCHANGED <<variant, retryCount, records, files, blobs, nextId, usedIds>>

(* await newInvoice.save(), then the response or the catch block *)
CreateSave(r) ==
  LET q == req[r]
      status == IF variant = "disk" THEN "completed" ELSE "pending"
      model == IF variant = "disk" THEN (IF q.model # "" THEN q.model ELSE "manual")
               ELSE "none"
      d == [fileId |-> q.fileId, fileName |-> TRUE, fileUrl |-> (variant = "blob"),
            number |-> IF variant = "disk" THEN <<"I", "N", "V", "-", "7">> ELSE <<>>,
            date |-> Today, status |-> status, model |-> model]
  IN /\ q.pc = "createSave"
     /\ IF ~schemaValid(variant, d)
        THEN /\ req' = [req EXCEPT ![r] = Fail(q, IF variant = "disk" THEN 400 ELSE 500)]
             /\ UNCHANGED <<records, nextId>>
        ELSE IF duplicateKey(q.fileId)
        THEN /\ req' = [req EXCEPT ![r] = Fail(q, IF variant = "disk" THEN 409 ELSE 500)]
             /\ UNCHANGED <<records, nextId>>
        ELSE /\ records' = records \cup
                  {Stored(nextId, q.fileId, status, model, <<"A", "c", "m", "e">>)}
             /\ nextId' = nextId + 1
             /\ req' = [req EXCEPT ![r].pc = "done", ![r].doc = nextId,
                                   ![r].resp = OkResp(201, "", FALSE, "")]
     /\ UNCHANGED <<variant, retryCount, files, blobs, usedIds, started>>

-----------------------------------------------------------------------------
(* invoiceRoutes: PUT /:id *)

(* ids a client can send: a stored _id, a well-formed unknown one, a malformed one *)
UnknownId == 99

MalformedId == -1

RequestIds == {rec.id : rec \in records} \cup {UnknownId, MalformedId}

NoBody == [vendor |-> FALSE, name |-> <<>>, status |-> "", model |-> "", fileId |-> ""]

PutBodies ==
  {[NoBody EXCEPT !.vendor = TRUE, !.name = <<"Z", "e", "d">>],
   [NoBody EXCEPT !.vendor = TRUE],
   [NoBody EXCEPT !.status = "pending"],
   [NoBody EXCEPT !.status = "failed"],
   [NoBody EXCEPT !.status = "archived"],
   [NoBody EXCEPT !.model = "groq"],
   [NoBody EXCEPT !.fileId = "f2"]}

(* disk variant: Invoice.findByIdAndUpdate(id, { ...updateData }, { runValidators }) *)
PutDisk(r) ==
  /\ variant = "disk"
  /\ Begin(r)
  /\ \E id \in RequestIds, body \in PutBodies :
       LET q == [IdleReq EXCEPT !.kind = "put", !.id = id, !.body = body]
           rec == CHOOSE x \in records : x.id = id
           new == [rec EXCEPT !.name = IF body.vendor THEN body.name ELSE rec.name,
                              !.status = IF body.status # "" THEN body.status ELSE rec.status,
                              !.model = IF body.model # "" THEN body.model ELSE rec.model]
       IN IF id = MalformedId \/ (body.vendor /\ body.name = <<>>)
          THEN req' = [req EXCEPT ![r] = Fail(q, 400)] /\ UNCHANGED records
          ELSE IF (body.status # "" /\ body.status \notin Statuses)
                    \/ (body.model # "" /\ body.model \notin {"gemini", "groq"})
          THEN req' = [req EXCEPT ![r] = Fail(q, 400)] /\ UNCHANGED records
          ELSE IF findById(id) = 0
          THEN req' = [req EXCEPT ![r] = Fail(q, 404)] /\ UNCHANGED records
          ELSE /\ records' = (records \ {rec}) \cup {new}
               /\ req' = [req EXCEPT ![r] = [q EXCEPT !.pc = "done",
                                                      !.resp = OkResp(200, "", FALSE, "")]]
  /\ UNCHANGED <<variant, retryCount, files, blobs, nextId, usedIds>>

(* blob variant: Invoice.findById(id) *)
PutFind(r) ==
  /\ variant = "blob"
  /\ Begin(r)
  /\ \E id \in RequestIds, body \in PutBodies :
       LET q == [IdleReq EXCEPT !.kind = "put", !.id = id, !.body = body]
       IN req' = [req EXCEPT ![r] =
                    IF id = MalformedId THEN Fail(q, 500)
                    ELSE IF findById(id) = 0 THEN Fail(q, 404)
                    ELSE [q EXCEPT !.pc = "putSave", !.doc = id]]
  /\ UNCHANGED <<variant, retryCount, records, files, blobs, nextId, usedIds>>

(* blob variant: vendor / invoice are replaced, then await invoice.save() *)
PutSave(r) ==
  LET q == req[r]
      rec == CHOOSE x \in records : x.id = q.doc
  IN /\ q.pc = "putSave"
     /\ IF findById(q.doc) = 0
        THEN req' = [req EXCEPT ![r] = Fail(q, 500)] /\ UNCHANGED records
        ELSE /\ records' = Updated(q.doc, rec.status, rec.model,
                                   IF q.body.vendor /\ q.body.name # <<>>
                                   THEN q.body.name ELSE rec.name)
             /\ req' = [req EXCEPT ![r].pc = "done", ![r].resp = OkResp(200, "", FALSE, "")]
     /\ UNCHANGED <<variant, retryCount, files, blobs, nextId, usedIds, started>>

-----------------------------------------------------------------------------
(* invoiceRoutes: DELETE /:id *)

(* the id check of the disk variant, then Invoice.findById(id) *)
DeleteFind(r) ==
  /\ Begin(r)
  /\ \E id \in RequestIds, keepFile \in BOOLEAN :
       LET q == [IdleReq EXCEPT !.kind = "delete", !.id = id,
                                !.body = [NoBody EXCEPT !.vendor = keepFile]]
       IN req' = [req EXCEPT ![r] =
                    IF id = MalformedId THEN Fail(q, IF variant = "disk" THEN 400 ELSE 500)
                    ELSE IF findById(id) = 0 THEN Fail(q, 404)
                    ELSE [q EXCEPT !.pc = "deleteRun", !.doc = id,
                                   !.fileId = (CHOOSE x \in records : x.id = id).fileId]]
  /\ UNCHANGED <<variant, retryCount, records, files, blobs, nextId, usedIds>>

(* the PDF is removed (fs.unlinkSync, or del(fileUrl) which may fail), then *)
(* Invoice.findByIdAndDelete(id)                                             *)
DeleteRun(r) ==
  LET q == req[r]
  IN /\ q.pc = "deleteRun"
     /\ \E delOk \in BOOLEAN :
          /\ files' = IF variant = "disk" /\ ~q.body.vendor THEN files \ {q.fileId} ELSE files
          /\ blobs' = IF variant = "blob" /\ delOk THEN blobs \ {q.fileId} ELSE blobs
     /\ records' = {rec \in records : rec.id # q.doc}
     /\ req' = [req EXCEPT ![r].pc = "done", ![r].resp = OkResp(200, "", FALSE, "")]
     /\ UNCHANGED <<variant, retryCount, nextId, usedIds, started>>

-----------------------------------------------------------------------------
(* Text extraction: extractTextFromPDF of services/pdfService.ts (remote       *)
(* service, then the binary-scan fallback) and of the pdf-parse / PDF.js       *)
(* variant (download, pdf-parse, PDF.js)                                       *)

Chars(n) == [i \in 1..n |-> "a"]

(* texts a strategy can come back with *)
PdfTexts ==
  {<<>>, <<" ">>, Chars(9), Chars(10), Chars(11),
   <<" ">> \o Chars(10) \o <<" ">>, <<" ">> \o Chars(11)}

(* what the POST to the remote service can do: node-fetch throws (network    *)
(* error, 45 s timeout), a non-2xx response, a body that is not JSON, or a    *)
(* JSON result { success, text }                                              *)
RemoteOutcomes ==
  {[k |-> "throws"], [k |-> "timeout"],
   [k |-> "http", ok |-> FALSE, json |-> FALSE, success |-> FALSE, text |-> Undef],
   [k |-> "http", ok |-> TRUE, json |-> FALSE, success |-> FALSE, text |-> Undef]}
  \cup {[k |-> "http", ok |-> TRUE, json |-> TRUE, success |-> b, text |-> t] :
          b \in BOOLEAN, t \in {Undef} \cup {Str(x) : x \in PdfTexts}}

(* result.success && result.text && result.text.trim().length > 1 *)
remoteAccepted_anyText(o) ==
  /\ o.k = "http"
  /\ o.ok
  /\ o.json
  /\ o.success
  /\ Truthy(o.text)
  /\ Len(Trim(o.text.s)) > 1

(* response.ok, then result.success && result.text &&                        *)
(* result.text.trim().length > 10                                            *)
remoteAccepted(o) ==
  /\ o.k = "http"
  /\ o.ok
  /\ o.json
  /\ o.success
  /\ Truthy(o.text)
  /\ Len(Trim(o.text.s)) > 10

(* what a method of the byte scan can match in the PDF bytes *)
ScanTexts ==
  {<<>>, Chars(9), Chars(10), Chars(19), Chars(20), Chars(49), Chars(50),
   <<" ">> \o Chars(9) \o <<" ">>}

(* what the ASCII pattern can deliver: nothing when the filter drops every   *)
(* run, otherwise runs of 20 characters or more, blanks included            *)
AsciiTexts ==
  {<<>>, Chars(20), Chars(50),
   <<" ", " ", " ", " ", " ">> \o Chars(10) \o <<" ", " ", " ", " ", " ">>}

(* the download of the PDF and, for each method of the byte scan, what it     *)
(* would recover from the bytes: the parenthesised runs, the Tj strings of    *)
(* the BT..ET objects, and the ASCII runs (Null when the pattern has no match)*)
FallbackOutcomes ==
  {[fetchOk |-> FALSE, paren |-> <<>>, objects |-> <<>>, ascii |-> Null]}
  \cup {[fetchOk |-> TRUE, paren |-> a, objects |-> b, ascii |-> c] :
          a \in ScanTexts, b \in ScanTexts, c \in {Null} \cup {Str(x) : x \in AsciiTexts}}

(* Method 2 runs when fewer than 50 characters were recovered and replaces    *)
(* them only by a longer text                                                 *)
afterTextObjects(o) ==
  IF Len(o.paren) < 50 /\ Len(o.objects) > Len(o.paren) THEN o.objects ELSE o.paren

(* Method 3 runs when fewer than 20 characters were recovered and replaces    *)
(* them whenever the pattern matched                                          *)
afterAscii(o) ==
  IF Len(afterTextObjects(o)) < 20 /\ o.ascii.t = "str" THEN o.ascii.s
  ELSE afterTextObjects(o)

(* the methods of the byte scan that were run, in their order *)
scanMethods(o) ==
  <<"parentheses">>
  \o (IF Len(o.paren) < 50 THEN <<"textObjects">> ELSE <<>>)
  \o (IF Len(afterTextObjects(o)) < 20 THEN <<"ascii">> ELSE <<>>)

(* fallbackTextExtraction: download, the three methods, then the recovered    *)
(* text is cleaned and trimmed and must have at least 10 characters           *)
fallbackTextExtraction(o) ==
  IF ~o.fetchOk THEN [ok |-> FALSE, text |-> <<>>, methods |-> <<>>]
  ELSE IF Len(Trim(afterAscii(o))) < 10
       THEN [ok |-> FALSE, text |-> <<>>, methods |-> scanMethods(o)]
       ELSE [ok |-> TRUE, text |-> Trim(afterAscii(o)), methods |-> scanMethods(o)]

(* extractWithPDFParse: data.text, or "" when pdf-parse throws *)
extractWithPDFParse(o) == IF o.k = "throws" THEN Str(<<>>) ELSE o.text

(* the strategies of each implementation, in the order of the code *)
Strategies(kind) ==
  IF kind = "textService" THEN <<"remote", "fallback">> ELSE <<"pdfParse", "pdfjs">>

StrategyDone(q, p, o, ok) ==
  [q EXCEPT !.tried = Append(q.tried, p),
            !.comps = Append(q.comps, o),
            !.failed = IF ok THEN q.failed ELSE q.failed \cup {p}]

TextReturned(q, p, text) == [q EXCEPT !.pc = "returned", !.producer = p, !.text = text]

(* extractTextFromPDF(fileUrl) is called *)
CallExtractText(r) ==
  /\ req[r].pc = "idle"
  /\ \E kind \in {"textService", "textForm"} :
       req' = [req EXCEPT ![r] = [IdleReq EXCEPT !.kind = kind,
                                                 !.pc = IF kind = "textService"
                                                        THEN "remote" ELSE "fetch"]]
  /\ UNCHANGED <<variant, retryCount, records, files, blobs, nextId, usedIds, started>>

(* pdfService.ts: the remote service is asked first *)
RemoteExtract(r) ==
  /\ req[r].pc = "remote"
  /\ \E o \in RemoteOutcomes :
       LET q == StrategyDone(req[r], "remote", o, remoteAccepted(o))
       IN req' = [req EXCEPT ![r] = IF remoteAccepted(o)
                                    THEN TextReturned(q, "remote", o.text.s)
                                    ELSE [q EXCEPT !.pc = "fallback"]]
  /\ UNCHANGED <<variant, retryCount, records, files, blobs, nextId, usedIds, started>>

(* pdfService.ts: fallbackTextExtraction, whose error is re-thrown *)
FallbackExtract(r) ==
  /\ req[r].pc = "fallback"
  /\ \E o \in FallbackOutcomes :
       LET res == fallbackTextExtraction(o)
           q == [StrategyDone(req[r], "fallback", o, res.ok) EXCEPT
                   !.body = [t |-> "scan", methods |-> res.methods]]
       IN req' = [req EXCEPT ![r] = IF res.ok THEN TextReturned(q, "fallback", res.text)
                                    ELSE [q EXCEPT !.pc = "threw"]]
  /\ UNCHANGED <<variant, retryCount, records, files, blobs, nextId, usedIds, started>>

(* pdf-parse / PDF.js variant: the PDF is downloaded before any strategy *)
FormFetch(r) ==
  /\ req[r].pc = "fetch"
  /\ \E ok \in BOOLEAN :
       req' = [req EXCEPT ![r] = IF ok THEN [req[r] EXCEPT !.pc = "pdfParse"]
                                 ELSE [req[r] EXCEPT !.pc = "threw", !.cleanup = "fetchError"]]
  /\ UNCHANGED <<variant, retryCount, records, files, blobs, nextId, usedIds, started>>

(* extractWithPDFParse, accepted when its text is not blank *)
FormPdfParse(r) ==
  /\ req[r].pc = "pdfParse"
  /\ \E o \in {[k |-> "throws", text |-> Undef]}
              \cup {[k |-> "text", text |-> t] : t \in {Undef} \cup {Str(x) : x \in PdfTexts}} :
       LET text == extractWithPDFParse(o)
           ok == Truthy(text) /\ Len(Trim(text.s)) # 0
           q == StrategyDone(req[r], "pdfParse", o, ok)
       IN req' = [req EXCEPT ![r] = IF ok THEN TextReturned(q, "pdfParse", text.s)
                                    ELSE [q EXCEPT !.pc = "pdfjs"]]
  /\ UNCHANGED <<variant, retryCount, records, files, blobs, nextId, usedIds, started>>

(* extractWithPDFJS returns fullText.trim() or throws; blank text is an error *)
FormPdfJS(r) ==
  /\ req[r].pc = "pdfjs"
  /\ \E o \in {[k |-> "throws", text |-> <<>>]} \cup {[k |-> "text", text |-> t] : t \in PdfTexts} :
       LET ok == o.k = "text" /\ Len(Trim(Trim(o.text))) # 0
           q == StrategyDone(req[r], "pdfjs", o, ok)
       IN req' = [req EXCEPT ![r] = IF ok THEN TextReturned(q, "pdfjs", Trim(o.text))
                                    ELSE [q EXCEPT !.pc = "threw"]]
  /\ UNCHANGED <<variant, retryCount, records, files, blobs, nextId, usedIds, started>>

-----------------------------------------------------------------------------
(* extractTextFromPDFWithRetry of services/pdfService.ts *)

(* one whole call of extractTextFromPDF, given what the remote service and  *)
(* the fallback do: the text, or the error message of the fallback          *)
extractTextOutcome(o1, o2) ==
  IF remoteAccepted(o1) THEN [ok |-> TRUE, text |-> o1.text.s, error |-> ""]
  ELSE IF fallbackTextExtraction(o2).ok
  THEN [ok |-> TRUE, text |-> fallbackTextExtraction(o2).text, error |-> ""]
  ELSE [ok |-> FALSE, text |-> <<>>,
        error |-> IF o2.fetchOk THEN "Could not extract meaningful text"
                  ELSE "Failed to fetch PDF"]

RECURSIVE Pow2(_)
Pow2(n) == IF n = 0 THEN 1 ELSE 2 * Pow2(n - 1)

(* the same delay before every retry *)
backoffDelay_fixed(attempt) == 2000

(* Math.pow(2, attempt) * 1000 *)
backoffDelay(attempt) == Pow2(attempt) * 1000

(* extractTextFromPDFWithRetry(fileUrl, maxRetries) is called; the loop is  *)
(* entered with attempt = 1 when maxRetries allows it                       *)
CallExtractTextWithRetry(r) ==
  /\ req[r].pc = "idle"
  /\ \E limit \in 0..MaxTextRetries :
       req' = [req EXCEPT ![r] = [IdleReq EXCEPT !.kind = "textRetry", !.limit = limit,
                                                 !.attempt = 1,
                                                 !.pc = IF 1 <= limit THEN "attempt"
                                                        ELSE "threw"]]
  /\ UNCHANGED <<variant, retryCount, records, files, blobs, nextId, usedIds, started>>

(* one pass of the loop body: await extractTextFromPDF(fileUrl), return its *)
(* text, or catch its error and start the delay when attempt < maxRetries   *)
RetryAttempt(r) ==
  /\ req[r].pc = "attempt"
  /\ \E o1 \in RemoteOutcomes, o2 \in FallbackOutcomes :
       LET res == extractTextOutcome(o1, o2)
           q == [req[r] EXCEPT !.comps = Append(req[r].comps, res)]
       IN req' = [req EXCEPT ![r] =
                    IF res.ok THEN [q EXCEPT !.pc = "returned", !.text = res.text]
                    ELSE IF q.attempt < q.limit
                    THEN [q EXCEPT !.pc = "backoff",
                                   !.waits = Append(q.waits, backoffDelay(q.attempt))]
                    ELSE [q EXCEPT !.pc = "threw"]]
  /\ UNCHANGED <<variant, retryCount, records, files, blobs, nextId, usedIds, started>>

(* the timer of the delay fires: attempt++ and the next pass *)
BackoffElapsed(r) ==
  /\ req[r].pc = "backoff"
  /\ req' = [req EXCEPT ![r].pc = "attempt", ![r].attempt = req[r].attempt + 1]
  /\ UNCHANGED <<variant, retryCount, records, files, blobs, nextId, usedIds, started>>

-----------------------------------------------------------------------------
(* The sanitizer applied to parsed provider objects *)

ItemInputs ==
  {[t |-> "obj", description |-> Str(<<"H", "o", "s", "e">>), unitPrice |-> Num(5),
    quantity |-> Num(2), total |-> Num(10)],
   [t |-> "obj", description |-> Str(<<" ", "N", "u", "t", " ">>), unitPrice |-> Str(<<"1", "2">>),
    quantity |-> Num(0), total |-> Undef],
   [t |-> "obj", description |-> Str(<<"T", "a", "p">>), unitPrice |-> Num(-5),
    quantity |-> Num(-1), total |-> Infinity],
   [t |-> "obj", description |-> Str(<<" ">>), unitPrice |-> Num(1), quantity |-> Num(1),
    total |-> Num(1)],
   [t |-> "obj", description |-> Str(UnknownItem), unitPrice |-> Num(1), quantity |-> Num(1),
    total |-> Num(1)],
   [t |-> "obj", description |-> Num(7)],
   [t |-> "obj"],
   Num(3),
   Null}

(* values of invoice.lineItems: sequences of up to two items, and non-sequences *)
LineItemInputs ==
  {Arr(<<>>)}
  \cup {Arr(<<a>>) : a \in ItemInputs}
  \cup {Arr(<<a, b>>) : a \in ItemInputs, b \in ItemInputs}
  \cup {Undef, Null, Str(<<"x">>), Num(7), [t |-> "obj"]}

NumberInputs ==
  {Undef, Num(0), Num(5), Num(-5), Infinity, Str(<<"1", "2">>), Str(<<"-", "5">>),
   Str(<<"n", "/", "a">>)}

DateInputs ==
  {Undef, Str(<<"2", "0", "2", "4", "-", "0", "1", "-", "1", "5">>),
   Str(<<"J", "a", "n", " ", "1", "5", ",", " ", "2", "0", "2", "4">>),
   Str(<<"n", "/", "a">>), Num(7)}

NameInputs == {Undef, Str(<<"A", "c", "m", "e">>), Str(<<" ", "A", "c", "m", "e", " ">>), Str(<<" ">>)}

(* parsed objects: every combination of one name, date and number with a few  *)
(* line-item values, and the shapes that are not invoices at all              *)
SanitizeInputs ==
  {[t |-> "obj",
    vendor |-> [t |-> "obj", name |-> n, address |-> n],
    invoice |-> [t |-> "obj", number |-> n, date |-> d, poDate |-> d, subtotal |-> x,
                 total |-> x, lineItems |-> l]] :
     n \in NameInputs, d \in DateInputs, x \in NumberInputs,
     l \in {Undef, Str(<<"x">>), Arr(<<>>)} \cup {Arr(<<a>>) : a \in ItemInputs}}
  \cup ProviderObjects(TRUE)

(* JSON.parse has produced an object and sanitizeExtractedData is given it *)
CallSanitize(r) ==
  /\ req[r].pc = "idle"
  /\ \E x \in SanitizeInputs :
       req' = [req EXCEPT ![r] = [IdleReq EXCEPT !.kind = "sanitize", !.pc = "sanitize",
                                                 !.body = x, !.data = x]]
  /\ UNCHANGED <<variant, retryCount, records, files, blobs, nextId, usedIds, started>>

(* one pass of sanitizeExtractedData over the current value *)
SanitizePass(r) ==
  /\ req[r].pc = "sanitize"
  /\ req' = [req EXCEPT ![r] =
               IF sanitizeThrows(req[r].data) THEN [req[r] EXCEPT !.pc = "threw"]
               ELSE [req[r] EXCEPT !.data = sanitizeExtractedData(req[r].data),
                                   !.attempt = req[r].attempt + 1,
                                   !.pc = IF req[r].attempt + 1 < MaxPasses
                                          THEN "sanitize" ELSE "returned"]]
  /\ UNCHANGED <<variant, retryCount, records, files, blobs, nextId, usedIds, started>>

(* sanitizeLineItems applied to a value *)
CallSanitizeLineItems(r) ==
  /\ req[r].pc = "idle"
  /\ \E items \in LineItemInputs :
       req' = [req EXCEPT ![r] =
                 IF items.t = "arr" /\ \E i \in 1..Len(items.items) :
                                         /\ items.items[i].t = "obj"
                                         /\ TrimThrows(Field(items.items[i], "description"))
                 THEN [IdleReq EXCEPT !.kind = "lineItems", !.pc = "threw", !.body = items]
                 ELSE [IdleReq EXCEPT !.kind = "lineItems", !.pc = "returned", !.body = items,
                                      !.data = Arr(sanitizeLineItems(items))]]
  /\ UNCHANGED <<variant, retryCount, records, files, blobs, nextId, usedIds, started>>

-----------------------------------------------------------------------------
(* The invoice edit forms: formData (upload page), editingInvoice (dashboard), *)
(* useForm (InvoiceForm component)                                             *)

FormKinds == {"formData", "editingInvoice", "useForm"}

(* amounts are whole numbers and the tax rates have exact binary fractions, so *)
(* the floating-point arithmetic of the forms is exact on them                 *)
UnitPrices == {0, 4, 8}

Quantities == {0, 1, 2}

TaxPercents == {0, 25, 50}

Descriptions == {<<>>, <<"a">>}

(* items.reduce((sum, item) => sum + item.total, 0) *)
RECURSIVE SumTotals(_)
SumTotals(items) ==
  IF items = <<>> THEN 0 ELSE Head(items).total + SumTotals(Tail(items))

(* subtotal + (subtotal * (taxPercent / 100)) *)
WithTax(subtotal, taxPercent) == subtotal + (subtotal * taxPercent) \div 100

(* { description: '', unitPrice: 0, quantity: 1, total: 0 } *)
NewLineItem == [description |-> <<>>, unitPrice |-> 0, quantity |-> 1, total |-> 0]

(* line items as the extraction or the store delivers them: the total is the  *)
(* product, or a figure printed on the invoice that is not                    *)
FormItems ==
  {[description |-> d, unitPrice |-> u, quantity |-> q, total |-> u * q] :
     d \in Descriptions, u \in UnitPrices, q \in Quantities}
  \cup {[description |-> <<"a">>, unitPrice |-> 4, quantity |-> 2, total |-> 12]}

(* initialData / the invoice chosen for editing: subtotal and total agree      *)
(* with the line items and the tax rate                                        *)
ConsistentInvoices ==
  {[taxPercent |-> t, subtotal |-> SumTotals(l), total |-> WithTax(SumTotals(l), t),
    lineItems |-> l] :
     t \in TaxPercents,
     l \in {<<>>} \cup {<<a>> : a \in FormItems}
          \cup {<<a, b>> : a \in FormItems, b \in {NewLineItem} \cup
                              {[description |-> <<"a">>, unitPrice |-> 8, quantity |-> 1,
                                total |-> 8]}}}

(* the line item recomputed whatever field was edited *)
updateLineItem_recomputesAlways(form, index, field, value) ==
  LET edited == [form.lineItems[index] EXCEPT ![field] = value]
      item == [edited EXCEPT !.total = edited.quantity * edited.unitPrice]
      updatedLineItems == [form.lineItems EXCEPT ![index] = item]
      subtotal == SumTotals(updatedLineItems)
  IN [form EXCEPT !.lineItems = updatedLineItems, !.subtotal = subtotal,
                  !.total = WithTax(subtotal, form.taxPercent)]

(* updateLineItem(index, field, value) of the upload page and the dashboard *)
updateLineItem(form, index, field, value) ==
  LET edited == [form.lineItems[index] EXCEPT ![field] = value]
      item == IF field \in {"quantity", "unitPrice"}
              THEN [edited EXCEPT !.total = edited.quantity * edited.unitPrice]
              ELSE edited
      updatedLineItems == [form.lineItems EXCEPT ![index] = item]
      subtotal == SumTotals(updatedLineItems)
  IN [form EXCEPT !.lineItems = updatedLineItems, !.subtotal = subtotal,
                  !.total = WithTax(subtotal, form.taxPercent)]

(* updateInvoiceField(field, value) / updateField('invoice', field, value) *)
updateInvoiceField(form, field, value) == [form EXCEPT ![field] = value]

(* addLineItem of the upload page *)
addLineItem(form) == [form EXCEPT !.lineItems = Append(form.lineItems, NewLineItem)]

(* items.filter((_, i) => i !== index) *)
Without(items, index) ==
  [i \in 1..(Len(items) - 1) |-> IF i < index THEN items[i] ELSE items[i + 1]]

(* removeLineItem(index) of the upload page *)
removeLineItem(form, index) ==
  LET updatedLineItems == Without(form.lineItems, index)
      subtotal == SumTotals(updatedLineItems)
  IN [form EXCEPT !.lineItems = updatedLineItems, !.subtotal = subtotal,
                  !.total = WithTax(subtotal, form.taxPercent)]

(* the auto-calculate effect of InvoiceForm, run after every change of the    *)
(* watched line items or tax rate                                             *)
autoCalculate(form) ==
  LET lineItems == [i \in 1..Len(form.lineItems) |->
                      [form.lineItems[i] EXCEPT
                         !.total = form.lineItems[i].unitPrice * form.lineItems[i].quantity]]
      subtotal == SumTotals(lineItems)
  IN [form EXCEPT !.lineItems = lineItems, !.subtotal = subtotal,
                  !.total = WithTax(subtotal, form.taxPercent)]

(* the values an input hands over: parseFloat(v) || 0, parseInt(v) || 0, text *)
FieldValues(field) ==
  CASE field = "unitPrice" -> UnitPrices
    [] field = "quantity" -> Quantities
    [] field = "description" -> Descriptions

(* the form is shown with an invoice; InvoiceForm runs its effect on mount *)
OpenForm(r) ==
  /\ req[r].pc = "idle"
  /\ \E kind \in FormKinds, invoice \in ConsistentInvoices :
       req' = [req EXCEPT ![r] =
                 [IdleReq EXCEPT !.kind = kind, !.pc = "editing",
                                 !.body = [op |-> "open"],
                                 !.data = IF kind = "useForm" THEN autoCalculate(invoice)
                                          ELSE invoice]]
  /\ UNCHANGED <<variant, retryCount, records, files, blobs, nextId, usedIds, started>>

(* onChange of a line-item input *)
EditLineItem(r) ==
  /\ req[r].pc = "editing"
  /\ \E index \in 1..Len(req[r].data.lineItems),
        field \in {"description", "unitPrice", "quantity"} :
       \E value \in FieldValues(field) :
         req' = [req EXCEPT ![r] =
                   [req[r] EXCEPT
                      !.body = [op |-> "updateLineItem", index |-> index, field |-> field,
                                value |-> value],
                      !.data = IF req[r].kind = "useForm"
                               THEN autoCalculate(
                                      [req[r].data EXCEPT !.lineItems[index][field] = value])
                               ELSE updateLineItem(req[r].data, index, field, value)]]
  /\ UNCHANGED <<variant, retryCount, records, files, blobs, nextId, usedIds, started>>

(* onChange of the tax rate input *)
EditTaxPercent(r) ==
  /\ req[r].pc = "editing"
  /\ \E value \in TaxPercents :
       req' = [req EXCEPT ![r] =
                 [req[r] EXCEPT
                    !.body = [op |-> "updateInvoiceField", field |-> "taxPercent",
                              value |-> value],
                    !.data = IF req[r].kind = "useForm"
                             THEN autoCalculate(
                                    updateInvoiceField(req[r].data, "taxPercent", value))
                             ELSE updateInvoiceField(req[r].data, "taxPercent", value)]]
  /\ UNCHANGED <<variant, retryCount, records, files, blobs, nextId, usedIds, started>>

(* the Add Item button (the dashboard has none) *)
AddLineItem(r) ==
  /\ req[r].pc = "editing"
  /\ req[r].kind \in {"formData", "useForm"}
  /\ Len(req[r].data.lineItems) < MaxItems
  /\ req' = [req EXCEPT ![r] =
               [req[r] EXCEPT
                  !.body = [op |-> "addLineItem"],
                  !.data = IF req[r].kind = "useForm"
                           THEN autoCalculate(addLineItem(req[r].data))
                           ELSE addLineItem(req[r].data)]]
  /\ UNCHANGED <<variant, retryCount, records, files, blobs, nextId, usedIds, started>>

(* the remove button of a line item (the dashboard has none) *)
RemoveLineItem(r) ==
  /\ req[r].pc = "editing"
  /\ req[r].kind \in {"formData", "useForm"}
  /\ \E index \in 1..Len(req[r].data.lineItems) :
       req' = [req EXCEPT ![r] =
                 [req[r] EXCEPT
                    !.body = [op |-> "removeLineItem", index |-> index],
                    !.data = IF req[r].kind = "useForm"
                             THEN autoCalculate(
                                    [req[r].data EXCEPT
                                       !.lineItems = Without(req[r].data.lineItems, index)])
                             ELSE removeLineItem(req[r].data, index)]]
  /\ UNCHANGED <<variant, retryCount, records, files, blobs, nextId, usedIds, started>>

(* the form is left: setEditingInvoice(null), or the page is closed *)
CloseForm(r) ==
  /\ req[r].pc = "editing"
  /\ req' = [req EXCEPT ![r] = [req[r] EXCEPT !.pc = "returned"]]
  /\ UNCHANGED <<variant, retryCount, records, files, blobs, nextId, usedIds, started>>

-----------------------------------------------------------------------------
(* Specifications *)

Init ==
  /\ variant \in {"disk", "blob"}
  /\ req = [r \in Reqs |-> IdleReq]
  /\ records = {}
  /\ files = {}
  /\ blobs = {}
  /\ nextId = 1
  /\ usedIds = {}
  /\ started = 0
  /\ retryCount = [gemini |-> 0, groq |-> 0]

(* the disk deployment after f1 was uploaded and extracted with Groq *)
InitStored ==
  /\ variant = "disk"
  /\ req = [r \in Reqs |-> IdleReq]
  /\ records = {Stored(1, "f1", "completed", "groq", <<"A", "c", "m", "e">>)}
  /\ files = {"f1"}
  /\ blobs = {}
  /\ nextId = 2
  /\ usedIds = {"f1"}
  /\ started = 0
  /\ retryCount = [gemini |-> 0, groq |-> 0]

(* the routes of the API over the record store *)
Next ==
  \E r \in Reqs :
    \/ UploadDisk(r)
    \/ UploadPut(r)
    \/ UploadSave(r)
    \/ ExtractStart(r)
    \/ RetryStart(r)
    \/ RetryCheckFile(r)
    \/ ExtractText(r)
    \/ GeminiCall(r, FALSE)
    \/ GroqCall(r, FALSE)
    \/ DelayElapsed(r)
    \/ ExtractFindOne(r)
    \/ ExtractSave(r)
    \/ CreateCheck(r)
    \/ CreateSave(r)
    \/ PutDisk(r)
    \/ PutFind(r)
    \/ PutSave(r)
    \/ DeleteFind(r)
    \/ DeleteRun(r)
    \/ Reset(r)

Spec == Init /\ [][Next]_vars

(* extraction, retry and deletion over a store that already holds an        *)
(* extracted invoice                                                         *)
NextStored ==
  \E r \in Reqs :
    \/ ExtractStart(r)
    \/ RetryStart(r)
    \/ RetryCheckFile(r)
    \/ ExtractText(r)
    \/ GeminiCall(r, FALSE)
    \/ GroqCall(r, FALSE)
    \/ DelayElapsed(r)
    \/ ExtractFindOne(r)
    \/ ExtractSave(r)
    \/ DeleteFind(r)
    \/ DeleteRun(r)
    \/ Reset(r)

SpecStored == InitStored /\ [][NextStored]_vars

(* one call of extractDataSafely against every provider behaviour *)
NextOrch ==
  \/ CallExtractData("r1")
  \/ GeminiCall("r1", TRUE)
  \/ GroqCall("r1", TRUE)
  \/ DelayElapsed("r1")
  \/ Reset("r1")

SpecOrch == Init /\ [][NextOrch]_vars

(* the same call when every provider call returns or fails and every delay   *)
(* runs out                                                                  *)
SpecOrchLive ==
  /\ SpecOrch
  /\ WF_vars(GeminiCall("r1", TRUE))
  /\ WF_vars(GroqCall("r1", TRUE))
  /\ WF_vars(DelayElapsed("r1"))

(* one call of extractTextFromPDF against every behaviour of its strategies *)
NextText ==
  \/ CallExtractText("r1")
  \/ RemoteExtract("r1")
  \/ FallbackExtract("r1")
  \/ FormFetch("r1")
  \/ FormPdfParse("r1")
  \/ FormPdfJS("r1")
  \/ Reset("r1")

SpecText == Init /\ [][NextText]_vars

(* one call of extractTextFromPDFWithRetry *)
NextTextRetry ==
  \/ CallExtractTextWithRetry("r1")
  \/ RetryAttempt("r1")
  \/ BackoffElapsed("r1")
  \/ Reset("r1")

SpecTextRetry == Init /\ [][NextTextRetry]_vars

(* the sanitizer over every parsed object *)
NextSanitize ==
  \/ CallSanitize("r1")
  \/ SanitizePass("r1")
  \/ CallSanitizeLineItems("r1")
  \/ Reset("r1")

SpecSanitize == Init /\ [][NextSanitize]_vars

(* one edit form and its user *)
NextForm ==
  \/ OpenForm("r1")
  \/ EditLineItem("r1")
  \/ EditTaxPercent("r1")
  \/ AddLineItem("r1")
  \/ RemoveLineItem("r1")
  \/ CloseForm("r1")
  \/ Reset("r1")

SpecForm == Init /\ [][NextForm]_vars

-----------------------------------------------------------------------------
(* Properties *)

(* C1: extractData always returns, and what it returns is a candidate whose   *)
(* vendor.name, invoice.number and invoice.date are non-empty strings and     *)
(* whose lineItems is a sequence, whatever the text, the preferred provider   *)
(* and the providers' outcomes were.                                          *)
ExtractDataReturnsValidCandidate ==
  \A r \in Reqs :
    LET q == req[r]
        d == q.data
    IN /\ q.kind = "call" =>
            q.pc \in {"tryGemini", "tryGroq", "geminiDelay", "groqDelay", "returned"}
       /\ (q.pc = "returned" \/ (q.kind \in {"extract", "retry"} /\ q.pc \in {"findOne", "save"})) =>
            /\ d.t = "obj"
            /\ Field(d, "vendor").t = "obj"
            /\ Field(Field(d, "vendor"), "name").t = "str"
            /\ Field(Field(d, "vendor"), "name").s # <<>>
            /\ Field(d, "invoice").t = "obj"
            /\ Field(Field(d, "invoice"), "number").t = "str"
            /\ Field(Field(d, "invoice"), "number").s # <<>>
            /\ Field(Field(d, "invoice"), "date").t = "str"
            /\ Field(Field(d, "invoice"), "date").s # <<>>
            /\ Field(Field(d, "invoice"), "lineItems").t = "arr"

(* extractData was called with the empty string, both providers failed, and it *)
(* returned                                                                    *)
ReturnedForEmptyTextAfterBothFailed ==
  \E r \in Reqs :
    /\ req[r].kind = "call"
    /\ req[r].pc = "returned"
    /\ req[r].text = <<>>
    /\ req[r].failed = {"gemini", "groq"}

(* C2: the preferred provider is attempted first, the other one only after the *)
(* preferred one ended unsuccessfully, the mock candidate is returned only     *)
(* after both ended unsuccessfully, and a success of the preferred provider    *)
(* means the other one was never called.                                       *)
PreferredThenOtherThenMock ==
  \A r \in Reqs :
    LET q == req[r]
    IN q.kind \in {"call", "extract", "retry"} =>
         /\ q.tried # <<>> => q.tried[1] = q.model
         /\ Len(q.tried) <= 2
         /\ Len(q.tried) = 2 => q.tried[2] = Other(q.model) /\ q.model \in q.failed
         /\ q.producer = "mock" => q.failed = {"gemini", "groq"}
         /\ q.producer # "" /\ q.producer = q.model => q.tried = <<q.model>> /\ q.failed = {}

(* the preferred provider failed and the other one produced the candidate *)
OtherProviderProducedCandidate ==
  \E r \in Reqs :
    /\ req[r].pc = "returned"
    /\ req[r].producer = Other(req[r].model)
    /\ req[r].failed = {req[r].model}

(* C3: when the preferred provider failed and the secondary one succeeded, the *)
(* extractionModel of the response and of the saved record is the secondary    *)
(* provider's name.                                                            *)
ExtractionModelNamesSecondary ==
  [][\A r \in Reqs :
       (/\ req[r].kind \in {"extract", "retry"}
        /\ req[r].pc = "save"
        /\ req'[r].pc = "done"
        /\ req'[r].resp.success
        /\ req[r].producer = Other(req[r].model))
       => /\ req'[r].resp.extractionModel = req[r].producer
          /\ \E rec \in records' : rec.id = req'[r].doc /\ rec.model = req[r].producer]_vars

(* C4: when both providers failed the candidate carries the mock marker and    *)
(* the response of POST /extract and POST /extract/retry has extractionModel   *)
(* "mock" and a warning.                                                       *)
MockMarkerContract ==
  \A r \in Reqs :
    LET q == req[r]
    IN (q.kind \in {"extract", "retry"} /\ q.pc = "done" /\ q.producer = "mock") =>
         /\ isMockData(q.data)
         /\ q.resp.extractionModel = "mock"
         /\ q.resp.warning

(* C5: a record has extractionModel set exactly when its extractionStatus is   *)
(* completed.                                                                  *)
ModelSetIffCompleted ==
  \A rec \in records : (rec.model # "none") <=> (rec.status = "completed")

(* C6: when text extraction fails or every provider fails for an existing      *)
(* file, the route answers success with status completed, a warning and the    *)
(* mock marker, and the mock result is on the record.                          *)
ExhaustionIsSuccessWithWarning ==
  [][\A r \in Reqs :
       (/\ req'[r].kind \in {"extract", "retry"}
        /\ req[r].pc # "done"
        /\ req'[r].pc = "done"
        /\ (req'[r].textFailed \/ req'[r].producer = "mock"))
       => /\ req'[r].resp.success
          /\ req'[r].resp.status = 200
          /\ req'[r].resp.state = "completed"
          /\ req'[r].resp.warning
          /\ req'[r].resp.extractionModel = "mock"
          /\ \E rec \in records' : rec.fileId = req'[r].fileId /\ rec.model = "mock"]_vars

(* C7: once the orchestrator has returned for an extract or retry request, the *)
(* record of the file is completed when the request ends, also for mock data,  *)
(* and is never left in failed.                                                *)
OrchestratorReturnCompletesRecord ==
  [][\A r \in Reqs :
       (/\ req[r].kind \in {"extract", "retry"}
        /\ req[r].pc = "save"
        /\ req'[r].pc = "done")
       => /\ \E rec \in records' : rec.fileId = req[r].fileId /\ rec.status = "completed"
          /\ \A rec \in records' : rec.fileId = req[r].fileId => rec.status # "failed"]_vars

(* C8 as stated: for each provider a failure with a rate-limit signal (status  *)
(* 429 or a message with the hint) is retried up to 3 attempts, after the      *)
(* advertised delay when present and 2 s otherwise; any other failure is not   *)
(* retried.                                                                    *)
RateLimitRetryForEachProvider ==
  \A r \in Reqs :
    LET e == req[r].last
        signal == e.raw.status = 429 \/ Includes(e.raw.message, <<"rate", "limit">>)
        advertised == extractRetryDelay(e.raw.message)
    IN e.out = "error" =>
         /\ e.retry <=> (signal /\ e.attempt < 3)
         /\ e.retry => e.wait = IF advertised >= 0 THEN advertised ELSE 2000

(* C8 amended: tryGemini retries exactly the failures with status 429, after   *)
(* the advertised delay when the message carries a positive one and 2 s        *)
(* otherwise; tryGroq retries exactly the failures whose message, as thrown by *)
(* extractDataWithGroq, contains "rate limit" (every status 429 does), always  *)
(* after 2 s; both stop after 3 attempts, and no other failure is retried.     *)
RateLimitRetryPerProvider ==
  \A r \in Reqs :
    LET q == req[r]
        e == q.last
        advertised == extractRetryDelay(e.raw.message)
    IN e.p # "" =>
         /\ e.attempt \in 1..3
         /\ e.retry => e.out = "error"
         /\ e.p = "gemini" /\ e.out = "error" =>
              /\ e.retry <=> (e.raw.status = 429 /\ e.attempt < 3)
              /\ e.retry => e.wait = IF advertised > 0 THEN advertised ELSE 2000
         /\ e.p = "groq" /\ e.out = "error" =>
              /\ e.retry <=> (Includes(e.err.message, <<"rate", "limit">>) /\ e.attempt < 3)
              /\ e.retry => e.wait = 2000
              /\ e.raw.status = 429 => Includes(e.err.message, <<"rate", "limit">>)
         /\ q.pc \in {"geminiDelay", "groqDelay"} => e.retry
         /\ q.attempt <= 3

(* tryGroq is about to retry after 2 s although the provider advertised 5 s *)
GroqRetryIgnoresAdvertisedDelay ==
  \E r \in Reqs :
    /\ req[r].pc = "groqDelay"
    /\ req[r].last.wait = 2000
    /\ extractRetryDelay(req[r].last.raw.message) = 5000

FileIdUnique ==
  /\ [](\A a, b \in records : a.fileId = b.fileId => a = b)
  /\ [][\A r \in Reqs :
          (/\ req[r].kind = "create"
           /\ req[r].pc = "createSave"
           /\ req'[r].pc = "done"
           /\ \E rec \in records : rec.fileId = req[r].fileId)
          => /\ records' = records
             /\ ~req'[r].resp.success]_vars

(* two create requests for one fileId both passed the existence check; one was *)
(* saved and the other one was rejected by the save                            *)
ConcurrentCreateRejected ==
  \E r1, r2 \in Reqs :
    /\ r1 # r2
    /\ req[r1].kind = "create" /\ req[r2].kind = "create"
    /\ req[r1].fileId = req[r2].fileId
    /\ req[r1].pc = "done" /\ req[r1].resp.success
    /\ req[r2].pc = "done" /\ ~req[r2].resp.success
    /\ variant = "blob" /\ req[r2].resp.status = 500
    /\ Cardinality({rec \in records : rec.fileId = req[r1].fileId}) = 1

(* C11: two extract or retry requests for one fileId are never both between    *)
(* their start and their record save.                                          *)
OneExtractionPerFileId ==
  \A r1, r2 \in Reqs :
    (/\ r1 # r2
     /\ req[r1].kind \in {"extract", "retry"}
     /\ req[r2].kind \in {"extract", "retry"}
     /\ req[r1].pc \notin {"idle", "done"}
     /\ req[r2].pc \notin {"idle", "done"})
    => req[r1].fileId # req[r2].fileId

(* C12: an upload whose put fails creates no record; an upload whose save      *)
(* fails after the put tries to delete the blob it created and creates no      *)
(* record; an upload that creates a record creates exactly one, pending,       *)
(* without extraction model, for a blob that was put.                          *)
UploadLeavesNoOrphanRecord ==
  [][\A r \in Reqs :
       (/\ variant = "blob"
        /\ req'[r].kind = "upload"
        /\ req[r].pc # "done"
        /\ req'[r].pc = "done")
       => IF req'[r].resp.success
          THEN /\ req[r].pc = "uploadSave"
               /\ req[r].fileId \in usedIds
               /\ \E rec \in records' :
                    /\ records' = records \cup {rec}
                    /\ rec \notin records
                    /\ rec.fileId = req[r].fileId
                    /\ rec.status = "pending"
                    /\ rec.model = "none"
          ELSE /\ records' = records
               /\ req[r].pc = "idle" => req'[r].fileId \notin blobs' /\ blobs' = blobs
               /\ req[r].pc = "uploadSave" =>
                    /\ req'[r].cleanup \in {"deleted", "failed"}
                    /\ req'[r].cleanup = "deleted" => req[r].fileId \notin blobs']_vars

(* an upload put its blob, the save of the record failed, and the blob was     *)
(* deleted again                                                               *)
UploadRolledBack ==
  \E r \in Reqs :
    /\ variant = "blob"
    /\ req[r].kind = "upload"
    /\ req[r].pc = "done"
    /\ ~req[r].resp.success
    /\ req[r].cleanup = "deleted"
    /\ req[r].fileId \notin blobs
    /\ \A rec \in records : rec.fileId # req[r].fileId

(* C13: a well-formed extract or retry request whose fileId has no record is   *)
(* answered 404 at once, before the text of the PDF is extracted and before    *)
(* any provider is called.                                                     *)
ExtractWithoutRecordIs404 ==
  [][\A r \in Reqs :
       (/\ req[r].pc = "idle"
        /\ req'[r].kind \in {"extract", "retry"}
        /\ req'[r].fileId # ""
        /\ req'[r].model \in {"gemini", "groq"}
        /\ \A rec \in records : rec.fileId # req'[r].fileId)
       => /\ req'[r].pc = "done"
          /\ req'[r].resp.status = 404]_vars

(* C14: an extract or retry request ends with 400 when the text of the PDF is  *)
(* empty or blank, with 400 when the model is unsupported, with 404 when the   *)
(* fileId is unknown, and in none of these cases with a 5xx status.            *)
ExtractInputErrorsAre4xx ==
  \A r \in Reqs :
    LET q == req[r]
    IN (q.kind \in {"extract", "retry"} /\ q.pc = "done") =>
         /\ q.blank => q.resp.status = 400
         /\ (q.fileId # "" /\ q.model \notin {"gemini", "groq"}) => q.resp.status = 400
         /\ (q.resp.status = 404) => q.tried = <<>> /\ ~q.textFailed
         /\ (q.blank \/ q.model \notin {"gemini", "groq"}) => q.resp.status < 500

(* C15: a request that ends as an input error or as not found (400, 404, 409,  *)
(* or a malformed id in either deployment) changed no record, no file and no   *)
(* blob, extracted no text and called no provider.                             *)
RejectedRequestsHaveNoEffect ==
  [][\A r \in Reqs :
       (/\ req[r].pc # "done"
        /\ req'[r].pc = "done"
        /\ req'[r].kind \in {"extract", "retry", "create", "put", "delete"}
        /\ \/ req'[r].resp.status \in {400, 404, 409}
           \/ req'[r].kind \in {"put", "delete"} /\ req'[r].id = MalformedId)
       => /\ records' = records
          /\ files' = files
          /\ blobs' = blobs
          /\ req'[r].tried = <<>>
          /\ req'[r].text = <<>>
          /\ ~req'[r].textFailed
          /\ ~req'[r].resp.success]_vars

(* a retry found the record but not the PDF and ended with 404, the record     *)
(* still being there                                                           *)
RetryRejectedRecordKept ==
  \E r \in Reqs :
    /\ req[r].kind = "retry"
    /\ req[r].pc = "done"
    /\ req[r].resp.status = 404
    /\ req[r].doc # 0
    /\ \E rec \in records : rec.id = req[r].doc

(* C16: PUT /invoices/:id leaves extractionStatus, extractionModel and fileId  *)
(* of the record as they were, whatever the body contains.                     *)
PutKeepsStatusModelFileId ==
  [][\A r \in Reqs :
       (/\ req'[r].kind = "put"
        /\ req[r].pc # "done"
        /\ req'[r].pc = "done")
       => \A rec \in records :
            rec.id = req'[r].id =>
              \E new \in records' :
                /\ new.id = rec.id
                /\ new.status = rec.status
                /\ new.model = rec.model
                /\ new.fileId = rec.fileId]_vars

(* C17 as stated: the strategies run in their fixed order, the text of the     *)
(* first success is returned and no later strategy runs, the call fails only   *)
(* after every strategy has been tried and has failed, and a remote result is  *)
(* a success exactly when the response is ok, success is true and the trimmed  *)
(* text is longer than 10; any other remote outcome leads to the next strategy.*)
FailsOnlyAfterEveryStrategy ==
  \A r \in Reqs :
    LET q == req[r]
        all == Strategies(q.kind)
    IN q.kind \in {"textService", "textForm"} =>
         /\ Len(q.tried) <= Len(all)
         /\ \A i \in 1..Len(q.tried) : q.tried[i] = all[i]
         /\ \A i \in 1..(Len(q.tried) - 1) : q.tried[i] \in q.failed
         /\ q.pc = "returned" =>
              /\ q.tried # <<>>
              /\ q.producer = q.tried[Len(q.tried)]
              /\ q.producer \notin q.failed
              /\ Len(Trim(q.text)) > 0
         /\ q.pc = "threw" =>
              /\ q.tried = all
              /\ \A i \in 1..Len(all) : all[i] \in q.failed
         /\ (q.kind = "textService" /\ q.tried # <<>>) =>
              LET o == q.comps[1]
              IN /\ ("remote" \notin q.failed) <=>
                      (o.k = "http" /\ o.ok /\ o.json /\ o.success /\ o.text.t = "str"
                         /\ Len(Trim(o.text.s)) > 10)
                 /\ "remote" \notin q.failed => q.pc = "returned" /\ q.text = o.text.s
                 /\ ("remote" \in q.failed /\ Len(q.tried) = 1) => q.pc = "fallback"

(* C17 amended: as stated, except that the pdf-parse / PDF.js implementation   *)
(* downloads the PDF first and fails without running any strategy when that    *)
(* download fails; every other failure comes after all strategies have failed. *)
FailsAfterDownloadOrEveryStrategy ==
  \A r \in Reqs :
    LET q == req[r]
        all == Strategies(q.kind)
    IN q.kind \in {"textService", "textForm"} =>
         /\ Len(q.tried) <= Len(all)
         /\ \A i \in 1..Len(q.tried) : q.tried[i] = all[i]
         /\ \A i \in 1..(Len(q.tried) - 1) : q.tried[i] \in q.failed
         /\ q.pc = "returned" =>
              /\ q.tried # <<>>
              /\ q.producer = q.tried[Len(q.tried)]
              /\ q.producer \notin q.failed
              /\ Len(Trim(q.text)) > 0
         /\ q.pc = "threw" =>
              \/ q.kind = "textForm" /\ q.cleanup = "fetchError" /\ q.tried = <<>>
              \/ /\ q.cleanup # "fetchError"
                 /\ q.tried = all
                 /\ \A i \in 1..Len(all) : all[i] \in q.failed
         /\ (q.kind = "textService" /\ q.tried # <<>>) =>
              LET o == q.comps[1]
              IN /\ ("remote" \notin q.failed) <=>
                      (o.k = "http" /\ o.ok /\ o.json /\ o.success /\ o.text.t = "str"
                         /\ Len(Trim(o.text.s)) > 10)
                 /\ "remote" \notin q.failed => q.pc = "returned" /\ q.text = o.text.s
                 /\ ("remote" \in q.failed /\ Len(q.tried) = 1) => q.pc = "fallback"

(* the remote service answered ok with success and a text of 10 characters,    *)
(* which is refused, and the fallback produced the text                        *)
FallbackAfterShortRemoteText ==
  \E r \in Reqs :
    /\ req[r].kind = "textService"
    /\ req[r].pc = "returned"
    /\ req[r].producer = "fallback"
    /\ req[r].comps[1].k = "http"
    /\ req[r].comps[1].ok /\ req[r].comps[1].json /\ req[r].comps[1].success
    /\ req[r].comps[1].text = Str(Chars(10))

(* C18: a second pass of sanitizeExtractedData over a sanitized candidate      *)
(* changes no field of it, the line items included.                            *)
SanitizeIdempotent ==
  [][\A r \in Reqs :
       (/\ req[r].kind = "sanitize"
        /\ req[r].pc = "sanitize"
        /\ req[r].attempt >= 1)
       => /\ req'[r].pc # "threw"
          /\ req'[r].data = req[r].data]_vars

(* C19: after sanitization subtotal, taxPercent and total of the candidate and *)
(* unitPrice, quantity and total of each line item are absent or finite        *)
(* numbers >= 0.                                                               *)
SanitizedNumbersFiniteNonNegative ==
  \A r \in Reqs :
    LET q == req[r]
        good(v) == v.t = "undef" \/ (v.t = "num" /\ v.n >= 0)
    IN (q.kind = "sanitize" /\ q.attempt >= 1) =>
         /\ good(q.data.invoice.subtotal)
         /\ good(q.data.invoice.taxPercent)
         /\ good(q.data.invoice.total)
         /\ \A i \in 1..Len(q.data.invoice.lineItems.items) :
              LET item == q.data.invoice.lineItems.items[i]
              IN good(item.unitPrice) /\ good(item.quantity) /\ good(item.total)

(* C20: sanitizeLineItems returns a non-empty sequence: the items that are     *)
(* objects with a description other than "Unknown Item", in their order, and   *)
(* exactly the placeholder item when none remain or the input is no sequence.  *)
LineItemsNeverEmpty ==
  \A r \in Reqs :
    LET q == req[r]
        kept(item) == item.t = "obj" /\ TrimOr(Field(item, "description"), UnknownItem) # UnknownItem
    IN (q.kind = "lineItems" /\ q.pc = "returned") =>
         /\ q.data.items # <<>>
         /\ q.body.t # "arr" => q.data.items = <<PlaceholderItem>>
         /\ q.body.t = "arr" =>
              LET n == Cardinality({i \in 1..Len(q.body.items) : kept(q.body.items[i])})
              IN /\ n = 0 => q.data.items = <<PlaceholderItem>>
                 /\ n > 0 =>
                      /\ Len(q.data.items) = n
                      /\ \A i, j \in 1..Len(q.body.items) :
                           (i < j /\ kept(q.body.items[i]) /\ kept(q.body.items[j])) =>
                             \E a, b \in 1..n :
                               /\ a < b
                               /\ q.data.items[a].description.s = Trim(q.body.items[i].description.s)
                               /\ q.data.items[b].description.s = Trim(q.body.items[j].description.s)

(* C21: in the upload page and the dashboard, changing unitPrice or quantity   *)
(* of a line item sets its total to the product of the new values, changing    *)
(* its description leaves its total as it was, and the totals of the other     *)
(* items stay as they were.                                                    *)
LineItemRecompute ==
  [][\A r \in Reqs :
       (/\ req[r].kind \in {"formData", "editingInvoice"}
        /\ req[r].pc = "editing"
        /\ req'[r].pc = "editing"
        /\ req'[r].body.op = "updateLineItem")
       => LET e == req'[r].body
              old == req[r].data.lineItems
              new == req'[r].data.lineItems
          IN /\ Len(new) = Len(old)
             /\ new[e.index][e.field] = e.value
             /\ e.field \in {"unitPrice", "quantity"} =>
                  new[e.index].total = new[e.index].unitPrice * new[e.index].quantity
             /\ e.field = "description" => new[e.index].total = old[e.index].total
             /\ \A j \in 1..Len(old) : j # e.index => new[j].total = old[j].total]_vars

(* the description of an item whose total is not the product has been edited  *)
(* next to another item, and a quantity has been edited to a non-zero product *)
DescriptionEditedTotalKept ==
  \E r \in Reqs :
    /\ req[r].kind = "formData"
    /\ req[r].pc = "editing"
    /\ req[r].body.op = "updateLineItem"
    /\ req[r].body.field = "description"
    /\ Len(req[r].data.lineItems) = 2
    /\ LET item == req[r].data.lineItems[req[r].body.index]
       IN /\ item.total = 12
          /\ item.unitPrice * item.quantity = 8
          /\ item.description = <<>>

(* C22: while a form is edited, subtotal is the sum of the line items' totals  *)
(* and total is subtotal x (1 + taxPercent/100).                               *)
FormTotalsConsistent ==
  \A r \in Reqs :
    (req[r].kind \in FormKinds /\ req[r].pc = "editing") =>
      /\ req[r].data.subtotal = SumTotals(req[r].data.lineItems)
      /\ req[r].data.total = WithTax(req[r].data.subtotal, req[r].data.taxPercent)

(* C23: the PDF is downloaded before any extraction strategy runs, and a call  *)
(* that fails because the download had a non-success status has invoked no    *)
(* strategy.                                                                   *)
DownloadBeforeAnyStrategy ==
  \A r \in Reqs :
    LET q == req[r]
        downloadFailed ==
          \/ q.cleanup = "fetchError"
          \/ \E i \in 1..Len(q.tried) : q.tried[i] = "fallback" /\ ~q.comps[i].fetchOk
    IN q.kind \in {"textService", "textForm"} =>
         /\ q.tried # <<>> => q.kind = "textForm"
         /\ (q.pc = "threw" /\ downloadFailed) => q.tried = <<>>

(* C24: the byte-scan fallback returns cleaned text of at least 20 characters  *)
(* or fails, and its methods run in order: the parenthesised runs, the BT..ET  *)
(* text objects only if fewer than 50 characters were recovered, the ASCII     *)
(* runs only if fewer than 20 were recovered.                                  *)
ScanReturnsTwentyOrFails ==
  \A r \in Reqs :
    LET q == req[r]
    IN (q.kind = "textService" /\ Len(q.tried) = 2 /\ q.comps[2].fetchOk) =>
         LET o == q.comps[2]
             second == Len(o.paren) < 50
             recovered == IF second /\ Len(o.objects) > Len(o.paren)
                          THEN o.objects ELSE o.paren
             third == Len(recovered) < 20
         IN /\ q.body.methods = <<"parentheses">>
                                  \o (IF second THEN <<"textObjects">> ELSE <<>>)
                                  \o (IF third THEN <<"ascii">> ELSE <<>>)
            /\ q.pc \in {"returned", "threw"}
            /\ q.pc = "returned" => Len(q.text) >= 20 /\ q.text = Trim(q.text)

(* C25: after sanitizeExtractedData each of subtotal, taxPercent and total is  *)
(* absent when its value parses to NaN and is the parsed number, 0 included,   *)
(* when its value parses to a finite float.                                    *)
FiniteTotalsKeptNaNOmitted ==
  \A r \in Reqs :
    LET q == req[r]
    IN (q.kind = "sanitize" /\ q.attempt = 1) =>
         \A f \in {"subtotal", "taxPercent", "total"} :
           LET parsed == parseFloat(Field(Field(q.body, "invoice"), f))
           IN /\ parsed = NaN => q.data.invoice[f] = Undef
              /\ parsed.t = "num" => q.data.invoice[f] = parsed

(* C26: with two extraction requests interleaved on the shared manager, each   *)
(* request counts its own attempts: a provider is first tried with attempt 1,  *)
(* every retry adds one, a rate-limited attempt is retried exactly when fewer  *)
(* than 3 attempts were made by this request, a step of one request leaves     *)
(* the other request as it was, and the shared counters never count.           *)
RetryBudgetPerCall ==
  [][/\ retryCount' = retryCount
     /\ \A r \in Reqs :
          LET q == req[r]
              n == req'[r]
              trying == {"tryGemini", "tryGroq"}
              waiting == {"geminiDelay", "groqDelay"}
              settled == q.pc \in trying /\ n.last # q.last
              limited == \/ n.last.err.status = 429
                         \/ /\ n.last.p = "groq"
                            /\ Includes(n.last.err.message, <<"rate", "limit">>)
          IN /\ q.pc \in trying \cup waiting => q.attempt \in 1..maxRetries
             /\ \A o \in Reqs \ {r} : req'[o] # req[o] => n = q
             /\ (q.pc \in waiting /\ n # q) =>
                  n.pc \in trying /\ n.attempt = q.attempt + 1
             /\ (q.pc \notin trying \cup waiting /\ n.pc \in trying) => n.attempt = 1
             /\ (settled /\ n.pc \in trying) => n.attempt = 1 /\ n.pc # q.pc
             /\ settled =>
                  /\ n.last.attempt = q.attempt
                  /\ n.last.retry <=> (limited /\ q.attempt < maxRetries)
                  /\ n.last.retry => n.pc \in waiting /\ n.attempt = q.attempt]_vars

(* one request is at its third attempt at Groq while the other waits after     *)
(* its first                                                                   *)
TwoRequestsRetrying ==
  /\ req["r1"].pc = "tryGroq"
  /\ req["r1"].attempt = 3
  /\ req["r2"].pc = "groqDelay"
  /\ req["r2"].attempt = 1

(* C27: every run of extractData ends, given that provider calls return or     *)
(* fail: attempts at a provider are numbered 1 to 3 and each retry takes the   *)
(* next number, one extractDataWithGroq call makes at most two completion      *)
(* requests, the second one with the fallback model, and none after the        *)
(* fallback model failed.                                                      *)
ExtractDataTerminates ==
  /\ [](\A r \in Reqs :
          LET q == req[r]
          IN q.kind = "call" =>
               /\ q.pc \in {"tryGemini", "tryGroq", "geminiDelay", "groqDelay"} =>
                    q.attempt \in 1..maxRetries
               /\ Len(q.comps) <= 2
               /\ Len(q.last.comps) <= 2
               /\ q.pc = "tryGroq" => (q.useFallback <=> Len(q.comps) = 1)
               /\ q.pc = "tryGemini" => q.comps = <<>>)
  /\ [][\A r \in Reqs :
          LET q == req[r]
              n == req'[r]
          IN (q.kind = "call" /\ n # q) =>
               /\ (q.pc = "tryGemini" /\ n.pc = "geminiDelay") => n.attempt = q.attempt
               /\ (q.pc = "tryGroq" /\ n.pc = "groqDelay") => n.attempt = q.attempt
               /\ q.pc \in {"geminiDelay", "groqDelay"} => n.attempt = q.attempt + 1
               /\ (q.pc = "tryGroq" /\ q.useFallback) => n.pc # "tryGroq" \/ n.attempt = 1
               /\ (q.pc = "tryGroq" /\ n.pc = "tryGemini") => q.model = "groq"
               /\ (q.pc = "tryGemini" /\ n.pc = "tryGroq") => q.model = "gemini"
               /\ (q.pc = "tryGroq" /\ n.pc = "tryGroq") => ~q.useFallback /\ n.useFallback]_vars
  /\ \A r \in Reqs :
       (req[r].kind = "call" /\ req[r].pc \in {"tryGemini", "tryGroq", "geminiDelay", "groqDelay"})
         ~> (req[r].pc = "returned")

(* a run that used every attempt: Gemini failed, then Groq was rate limited    *)
(* three times, each time with both models, and the mock candidate came back   *)
EveryAttemptUsed ==
  \E r \in Reqs :
    /\ req[r].kind = "call"
    /\ req[r].pc = "returned"
    /\ req[r].model = "gemini"
    /\ req[r].tried = <<"gemini", "groq">>
    /\ req[r].producer = "mock"
    /\ req[r].last.p = "groq"
    /\ req[r].last.attempt = maxRetries
    /\ Len(req[r].last.comps) = 2

(* C28: the model name that POST /extract and POST /extract/retry go on to     *)
(* save on the record and to report, with the warning, is "mock" only when     *)
(* both providers failed; a candidate of a real provider that passed the gate  *)
(* keeps the name of a real model.                                             *)
MockOnlyWhenBothFailed ==
  \A r \in Reqs :
    LET q == req[r]
    IN (q.kind \in {"extract", "retry"} /\ q.pc \in {"findOne", "save"}) =>
         /\ actualModelUsed(q) = "mock" => q.producer = "mock"
         /\ isMockData(q.data) => q.producer = "mock"

(* C29: after a DELETE that removed the record and the PDF of a file has       *)
(* completed, an extract or retry request for that file that is still in       *)
(* flight (it passed the file check, so it arrived before the PDF was removed) *)
(* neither creates nor saves a record with that fileId.                        *)
DeletedStaysDeleted ==
  [][\A r, d \in Reqs :
       (/\ req[r].kind \in {"extract", "retry"}
        /\ req[r].pc \in {"extractText", "tryGemini", "tryGroq", "geminiDelay",
                          "groqDelay", "findOne", "save"}
        /\ req[d].kind = "delete"
        /\ req[d].pc = "done"
        /\ req[d].resp.success
        /\ req[d].fileId = req[r].fileId
        /\ req[d].fileId \notin files)
       => \A rec \in records' : rec.fileId = req[r].fileId => rec \in records]_vars

(* C30: extractTextFromPDFWithRetry calls extractTextFromPDF at most           *)
(* maxRetries times, returns the text of the first attempt that succeeds and   *)
(* makes no further attempt, waits 2^attempt seconds after each failed attempt *)
(* that is followed by another and not after the last, and throws only after   *)
(* maxRetries failed attempts.                                                 *)
TextRetryContract ==
  \A r \in Reqs :
    LET q == req[r]
        calls == Len(q.comps)
    IN q.kind = "textRetry" =>
         /\ calls <= q.limit
         /\ \A i \in 1..(calls - 1) : ~q.comps[i].ok
         /\ \A i \in 1..Len(q.waits) : q.waits[i] = 1000 * 2^i /\ ~q.comps[i].ok
         /\ q.pc = "attempt" => calls = q.attempt - 1 /\ Len(q.waits) = calls
         /\ q.pc = "backoff" => calls = q.attempt /\ Len(q.waits) = calls /\ calls < q.limit
         /\ q.pc = "returned" =>
              /\ calls >= 1
              /\ q.comps[calls].ok
              /\ q.text = q.comps[calls].text
              /\ Len(q.waits) = calls - 1
         /\ q.pc = "threw" =>
              /\ calls = q.limit
              /\ \A i \in 1..calls : ~q.comps[i].ok
              /\ Len(q.waits) = IF calls = 0 THEN 0 ELSE calls - 1

(* the third attempt of three succeeded after waits of 2 s and 4 s *)
ThirdAttemptSucceeded ==
  \E r \in Reqs :
    /\ req[r].kind = "textRetry"
    /\ req[r].pc = "returned"
    /\ req[r].limit = 3
    /\ Len(req[r].comps) = 3
    /\ req[r].waits = <<2000, 4000>>
    /\ req[r].text # <<>>

====
